---- MODULE Spec2Model ----
(***************************************************************************)
(* A model of the Aura mission orchestrator: the Mission Log               *)
(* (services/mission_log_service.py), the Conductor's execution loop       *)
(* (services/conductor_service.py), the re-planner                         *)
(* (services/development_team_service.py), the dispatch / stop entry       *)
(* points (api/agent.py) and the Tool Runner's parameter preparation       *)
(* (services/tool_runner_service.py).                                      *)
(***************************************************************************)
EXTENDS Integers, Sequences, FiniteSets, TLC

\* ------------------------------------------------------------------ bounds

\* Longest list of plan steps handed to set_initial_plan / replace_tasks_from_id.
MaxSteps == 2

\* add_task is exercised while _next_task_id stays at or below this id.
MaxId == 3

\* ------------------------------------------------------------- value sets

\* Task descriptions a planner can produce; "" is the empty description that
\* add_task rejects with ValueError.
Descs == {"a", "b"}

INDEX_DESC == "Index the project to build a contextual map."

INDEX_TOOL == "index_project_context"

Goals == {"g"}

\* Outcomes of the file write in _save_and_notify that the Mission Log
\* service is driven with (TRUE: json.dump succeeded).
WriteOutcomes == {TRUE}

\* Service stacks: get_aura_services builds one ServiceManager (one
\* MissionLogService, one ConductorService) per request of the user.
Missions == {1, 2}

RECURSIVE SeqsUpTo(_, _)
SeqsUpTo(S, n) ==
    IF n = 0 THEN {<<>>}
    ELSE LET shorter == SeqsUpTo(S, n - 1)
         IN shorter \cup {Append(s, x) : s \in {t \in shorter : Len(t) = n - 1}, x \in S}

\* Plans: add_task stops a plan at its first empty description, so an empty
\* description is drawn in the last place only.
StepLists ==
    SeqsUpTo(Descs, MaxSteps)
        \cup {Append(s, "") : s \in SeqsUpTo(Descs, MaxSteps - 1)}

VARIABLES
    tasks,              \* MissionLogService.tasks, per service stack
    next_task_id,       \* MissionLogService._next_task_id
    initial_user_goal,  \* MissionLogService._initial_user_goal
    disk,               \* mission_log.json of the active project
    out,                \* per service stack: the events its last step emitted
    lastOp,             \* the name of the last Mission Log operation
    issued,             \* highest id add_task handed out in the current mission
    reused,             \* some add_task handed out an id at or below issued
    diskFresh,          \* the file holds a log of the plan now in memory
    track,              \* which history a run records: "ops" or "ids"
    tr_pc,              \* ToolRunnerService.run_tool: "idle", "initiated", "completed"
    tr_tool,            \* the blueprint of the invocation
    tr_params,          \* execution_params handed to the action function
    tr_result,          \* what run_tool returns
    tr_status,          \* the status of tool_call_completed
    tr_ran,             \* the action function was called
    tr_widget,          \* run_tool: widget_id, the id() of the invocation
    pc,                 \* per dispatch request: where its background task stands
    current_task,       \* execute_mission: the id of current_task, 0 before one is taken
    retry_count,        \* execute_mission: retry_count
    task_succeeded,     \* execute_mission: task_succeeded
    registry,           \* mission_control: the user's entry of the process-wide registry
    stopped,            \* per mission: stop() was requested while it executed a task
    last_failure,       \* per mission: the error message of its last failed attempt
    gw_pc,              \* _unified_llm_streamer: "idle", "streaming", "returned"
    gw_as,              \* stream_to_user_socket_as is given
    gw_arrived,         \* the lines read from the response so far
    gw_sent,            \* what the call has sent to the user's clients so far
    gw_reply,           \* final_reply
    gw_return,          \* what the call returned
    bus_clients,        \* websocket_manager: the clients that are connected
    bus_received,       \* per client: the events written to its websocket
    bus_emitted,        \* per producer: the number of events it has emitted
    bus_pending,        \* per producer: the clients its broadcast has yet to write to
    pr_queue,           \* BackgroundTasks: the planner jobs enqueued and not yet run
    pr_chats,           \* the calls of run_companion_chat so far
    pr_status,          \* the status of the last prompt response, 0 before the first
    sel_pc,             \* _get_tool_call_for_task: "idle", "generating", "done"
    sel_call,           \* the reply of the tool selection
    sel_result,         \* what _get_tool_call_for_task returned
    sel_generated,      \* what the gateway returned to the code generation, "none" without one
    sel_retry_count,    \* the failed selections of the task: retry_count of the attempts
    ls_pc,              \* stream_llm_response: "idle", "streaming", "ended", "raised"
    ls_is_json,         \* request.is_json
    ls_doc,             \* the text the provider is about to stream
    ls_pos,             \* how much of it the provider has yielded
    ls_content,         \* full_response_content (json_accumulator for is_json)
    ls_brace_counter,   \* brace_counter
    ls_in_json_block,   \* in_json_block
    ls_phases_yielded,  \* phases_yielded
    ls_records          \* the records the generator has yielded

logVars == <<tasks, next_task_id, initial_user_goal, disk, out, lastOp, issued,
             reused, diskFresh, track>>

toolVars == <<tr_pc, tr_tool, tr_params, tr_result, tr_status, tr_ran, tr_widget>>

condVars == <<pc, current_task, retry_count, task_succeeded, registry, stopped,
             last_failure>>

llmVars == <<gw_pc, gw_as, gw_arrived, gw_sent, gw_reply, gw_return>>

busVars == <<bus_clients, bus_received, bus_emitted, bus_pending>>

promptVars == <<pr_queue, pr_chats, pr_status>>

selVars == <<sel_pc, sel_call, sel_result, sel_generated, sel_retry_count>>

srvVars == <<ls_pc, ls_is_json, ls_doc, ls_pos, ls_content, ls_brace_counter,
             ls_in_json_block, ls_phases_yielded, ls_records>>

vars == <<logVars, toolVars, condVars, llmVars, busVars, promptVars, selVars, srvVars>>

\* ------------------------------------------------------------ Mission Log

NoFile == [exists |-> FALSE, initial_goal |-> "", tasks |-> <<>>]

EmptyLog == [tasks |-> <<>>, next_id |-> 1, goal |-> ""]

LogOf(m) == [tasks |-> tasks[m], next_id |-> next_task_id[m],
             goal |-> initial_user_goal[m]]

TaskIds(ts) == {ts[i].id : i \in 1..Len(ts)}

MaxOf(S) == CHOOSE x \in S : \A y \in S : y <= x

\* add_task's new_task dictionary.
NewTask(id, description, tool_call) ==
    [id |-> id, description |-> description, done |-> FALSE,
     tool_call |-> tool_call, last_error |-> "none"]

\* add_task(description, tool_call, notify=False) for a non-empty description.
add_task(L, description, tool_call) ==
    [L EXCEPT !.tasks = Append(@, NewTask(L.next_id, description, tool_call)),
              !.next_id = @ + 1]

\* "for step in plan_steps: self.add_task(description=step, notify=False)":
\* the loop stops at the first empty description, where add_task raises.
RECURSIVE AddSteps(_, _)
AddSteps(L, steps) ==
    IF steps = <<>> THEN [log |-> L, raised |-> FALSE]
    ELSE IF Head(steps) = "" THEN [log |-> L, raised |-> TRUE]
    ELSE AddSteps(add_task(L, Head(steps), "none"), Tail(steps))

\* A set_initial_plan that forgets "self.tasks = []".
set_initial_plan_keeping(L, plan_steps, user_goal) ==
    LET kept == [tasks |-> L.tasks, next_id |-> 1, goal |-> user_goal]
        indexed == add_task(kept, INDEX_DESC, INDEX_TOOL)
        r == AddSteps(indexed, plan_steps)
    IN [log |-> r.log, save |-> ~r.raised, raised |-> r.raised]

\* Each mutator below yields [log, save, raised]: the log it leaves in memory,
\* whether it reached _save_and_notify, and whether it raised ValueError.

set_initial_plan(L, plan_steps, user_goal) ==
    LET cleared == [tasks |-> <<>>, next_id |-> 1, goal |-> user_goal]
        indexed == add_task(cleared, INDEX_DESC, INDEX_TOOL)
        r == AddSteps(indexed, plan_steps)
    IN [log |-> r.log, save |-> ~r.raised, raised |-> r.raised]

\* A mark_task_as_done that saves and notifies also for a task already done.
mark_task_as_done_resaving(L, task_id) ==
    LET hit == {i \in 1..Len(L.tasks) : L.tasks[i].id = task_id}
    IN IF hit = {} THEN [log |-> L, save |-> FALSE, raised |-> FALSE]
       ELSE LET i == CHOOSE j \in hit : \A k \in hit : j <= k
            IN [log |-> [L EXCEPT !.tasks[i].done = TRUE,
                                  !.tasks[i].last_error = "none"],
                save |-> TRUE, raised |-> FALSE]

mark_task_as_done(L, task_id) ==
    LET hit == {i \in 1..Len(L.tasks) : L.tasks[i].id = task_id}
    IN IF hit = {} THEN [log |-> L, save |-> FALSE, raised |-> FALSE]
       ELSE LET i == CHOOSE j \in hit : \A k \in hit : j <= k
            IN IF L.tasks[i].done
               THEN [log |-> L, save |-> FALSE, raised |-> FALSE]
               ELSE [log |-> [L EXCEPT !.tasks[i].done = TRUE,
                                       !.tasks[i].last_error = "none"],
                     save |-> TRUE, raised |-> FALSE]

clear_all_tasks(L) ==
    IF L.tasks # <<>>
    THEN [log |-> EmptyLog, save |-> TRUE, raised |-> FALSE]
    ELSE [log |-> L, save |-> FALSE, raised |-> FALSE]

replace_tasks_from_id(L, start_task_id, new_plan_steps) ==
    LET hit == {i \in 1..Len(L.tasks) : L.tasks[i].id = start_task_id}
    IN IF hit = {} THEN [log |-> L, save |-> FALSE, raised |-> FALSE]
       ELSE LET start_index == CHOOSE j \in hit : \A k \in hit : j <= k
                kept == [L EXCEPT !.tasks = SubSeq(@, 1, start_index - 1)]
                r == AddSteps(kept, new_plan_steps)
            IN [log |-> r.log, save |-> ~r.raised, raised |-> r.raised]

\* load_log_for_active_project up to its trailing _save_and_notify: the file
\* carries initial_goal and tasks only, _next_task_id is rebuilt from the ids.
\* A reload that counts the tasks instead of taking the highest id.
LoadNextIdByCount(ts) == Len(ts) + 1

LoadNextId(ts) == IF ts # <<>> THEN MaxOf(TaskIds(ts)) + 1 ELSE 1

load_log(file, readable) ==
    IF file.exists /\ readable
    THEN [tasks |-> file.tasks, next_id |-> LoadNextId(file.tasks),
          goal |-> file.initial_goal]
    ELSE EmptyLog

\* json.dump(data_to_save) of _save_and_notify.
FileOf(L) == [exists |-> TRUE, initial_goal |-> L.goal, tasks |-> L.tasks]

\* _save_and_notify: mission_log_updated is emitted first, then the file is
\* written; written = FALSE is the IOError branch (or no active project path).
save_and_notify(L, written) ==
    [events |-> <<"mission_log_updated">>,
     file |-> IF written THEN FileOf(L) ELSE disk]

NoEvents == [m \in Missions |-> <<>>]

\* The events of a step of service stack m: no other stack emitted any.
Emit(m, events) == [NoEvents EXCEPT ![m] = events]

\* The effect of one mutator call of service stack m on the log state.
Commit(m, r, written) ==
    /\ tasks' = [tasks EXCEPT ![m] = r.log.tasks]
    /\ next_task_id' = [next_task_id EXCEPT ![m] = r.log.next_id]
    /\ initial_user_goal' = [initial_user_goal EXCEPT ![m] = r.log.goal]
    /\ disk' = IF r.save THEN save_and_notify(r.log, written).file ELSE disk
    /\ out' = Emit(m, IF r.save THEN save_and_notify(r.log, written).events ELSE <<>>)

\* --------------------------------------------- Mission Log as a service

\* The service stack whose Mission Log is driven directly.
Svc == 1

NoOp == "none"

\* History of the ids. add_task hands ids out in increasing order, so the
\* highest id handed out tells whether a new id is fresh. A new plan
\* (set_initial_plan, clear_all_tasks, no file to load) starts a new mission.
TrackIds(L, r, newPlan, loaded) ==
    IF track # "ids" THEN UNCHANGED <<issued, reused, diskFresh, track>>
    ELSE
    /\ issued' = IF newPlan THEN r.log.next_id - 1
                 ELSE IF loaded /\ ~diskFresh THEN LoadNextId(r.log.tasks) - 1
                 ELSE IF r.log.next_id > L.next_id /\ r.log.next_id - 1 > issued
                      THEN r.log.next_id - 1
                 ELSE issued
    /\ reused' = IF newPlan \/ loaded THEN reused
                 ELSE (reused \/ (r.log.next_id > L.next_id /\ L.next_id <= issued))
    /\ diskFresh' = IF r.save THEN TRUE
                    ELSE IF newPlan THEN FALSE ELSE diskFresh
    /\ UNCHANGED track

\* History of the operations: the name of the last one. A direct call of
\* the Mission Log leaves the Tool Runner and the Conductor as they are.
TrackOp(name) ==
    /\ lastOp' = IF track = "ops" THEN name ELSE NoOp
    /\ UNCHANGED <<toolVars, condVars, llmVars, busVars, promptVars, selVars, srvVars>>

SetInitialPlan(steps, g, written) ==
    LET r == set_initial_plan(LogOf(Svc), steps, g)
    IN /\ Len(steps) + 1 <= MaxId
       /\ Commit(Svc, r, written)
       /\ TrackOp("set_initial_plan")
       /\ TrackIds(LogOf(Svc), r, TRUE, FALSE)

AddTask(d, written) ==
    LET r == [log |-> add_task(LogOf(Svc), d, "none"), save |-> TRUE,
              raised |-> FALSE]
    IN /\ next_task_id[Svc] <= MaxId
       /\ Commit(Svc, r, written)
       /\ TrackOp("add_task")
       /\ TrackIds(LogOf(Svc), r, FALSE, FALSE)

\* add_task("") raises ValueError before it touches the log.
AddTaskEmpty ==
    /\ out' = NoEvents
    /\ TrackOp("add_task")
    /\ UNCHANGED <<tasks, next_task_id, initial_user_goal, disk, issued,
                   reused, diskFresh, track>>

MarkTaskAsDone(id, written) ==
    LET r == mark_task_as_done(LogOf(Svc), id)
    IN /\ Commit(Svc, r, written)
       /\ TrackOp("mark_task_as_done")
       /\ TrackIds(LogOf(Svc), r, FALSE, FALSE)

ClearAllTasks(written) ==
    LET r == clear_all_tasks(LogOf(Svc))
    IN /\ Commit(Svc, r, written)
       /\ TrackOp("clear_all_tasks")
       /\ TrackIds(LogOf(Svc), r, r.save, FALSE)

ReplaceTasksFromId(id, steps, written) ==
    LET r == replace_tasks_from_id(LogOf(Svc), id, steps)
    IN /\ next_task_id[Svc] + Len(steps) - 1 <= MaxId
       /\ Commit(Svc, r, written)
       /\ TrackOp("replace_tasks_from_id")
       /\ TrackIds(LogOf(Svc), r, FALSE, FALSE)

LoadLogForActiveProject(readable, written) ==
    LET r == [log |-> load_log(disk, readable), save |-> TRUE,
              raised |-> FALSE]
    IN /\ Commit(Svc, r, written)
       /\ TrackOp("load_log_for_active_project")
       /\ TrackIds(LogOf(Svc), r, ~(disk.exists /\ readable), TRUE)

ToolIdle ==
    /\ tr_pc = "idle"
    /\ tr_tool = "none"
    /\ tr_params = <<>>
    /\ tr_result = "none"
    /\ tr_status = "none"
    /\ tr_ran = FALSE
    /\ tr_widget = 0

\* The clients (browser windows) and the user each belongs to.
Clients == {1, 2, 3}

ClientUser(client) == IF client = 3 THEN "u2" ELSE "u1"

\* The producers of events: background tasks that emit for a user.
Producers == {1, 2}

ProducerUser(producer) == IF producer = 2 THEN "u2" ELSE "u1"

BusIdle ==
    /\ bus_clients = {}
    /\ bus_received = [c \in Clients |-> <<>>]
    /\ bus_emitted = [p \in Producers |-> 0]
    /\ bus_pending = [p \in Producers |-> <<>>]

GatewayIdle ==
    /\ gw_pc = "idle"
    /\ gw_as = FALSE
    /\ gw_arrived = <<>>
    /\ gw_sent = <<>>
    /\ gw_reply = ""
    /\ gw_return = "none"

ConductorIdle ==
    /\ pc = [m \in Missions |-> "none"]
    /\ current_task = [m \in Missions |-> 0]
    /\ retry_count = [m \in Missions |-> 0]
    /\ task_succeeded = [m \in Missions |-> FALSE]
    /\ registry = [running |-> FALSE, stop_requested |-> FALSE]
    /\ stopped = [m \in Missions |-> FALSE]
    /\ last_failure = [m \in Missions |-> "none"]

\* Every service stack as constructed: empty logs, nothing running.
\* A reply of the tool selection: what the gateway returned and, for a
\* reply, whether a JSON object is found in it, whether it has the keys
\* tool_name and arguments, and the arguments content and task_description
\* ("absent", "" or a text).
SelectionReply(returned, parsed, has_tool_name, has_arguments, tool_name, content, task_description) ==
    [returned |-> returned, parsed |-> parsed, has_tool_name |-> has_tool_name,
     has_arguments |-> has_arguments, tool_name |-> tool_name, content |-> content,
     task_description |-> task_description]

NoSelection == SelectionReply("", FALSE, FALSE, FALSE, "none", "absent", "absent")

\* The tool call _get_tool_call_for_task returns; returned = FALSE is None.
ToolCall(returned, tool_name, has_content, content, has_task_description) ==
    [returned |-> returned, tool_name |-> tool_name, has_content |-> has_content,
     content |-> content, has_task_description |-> has_task_description]

NoToolCall == ToolCall(FALSE, "none", FALSE, <<>>, FALSE)

\* No prompt request has arrived.
PromptIdle ==
    /\ pr_queue = 0
    /\ pr_chats = 0
    /\ pr_status = 0

\* No tool selection has begun.
SelectionIdle ==
    /\ sel_pc = "idle"
    /\ sel_call = NoSelection
    /\ sel_result = NoToolCall
    /\ sel_generated = "none"
    /\ sel_retry_count = 0

\* No request has reached the LLM service.
LlmServerIdle ==
    /\ ls_pc = "idle"
    /\ ls_is_json = FALSE
    /\ ls_doc = <<>>
    /\ ls_pos = 0
    /\ ls_content = <<>>
    /\ ls_brace_counter = 0
    /\ ls_in_json_block = FALSE
    /\ ls_phases_yielded = {}
    /\ ls_records = <<>>

Constructed(t) ==
    /\ ToolIdle
    /\ LlmServerIdle
    /\ PromptIdle
    /\ SelectionIdle
    /\ ConductorIdle
    /\ GatewayIdle
    /\ BusIdle
    /\ tasks = [m \in Missions |-> <<>>]
    /\ next_task_id = [m \in Missions |-> 1]
    /\ initial_user_goal = [m \in Missions |-> ""]
    /\ out = NoEvents
    /\ lastOp = NoOp
    /\ issued = 0
    /\ reused = FALSE
    /\ diskFresh = TRUE
    /\ track = t

LogInit(t) == Constructed(t) /\ disk = NoFile

LogNext ==
    \/ \E steps \in StepLists, g \in Goals, w \in WriteOutcomes : SetInitialPlan(steps, g, w)
    \/ \E d \in Descs, w \in WriteOutcomes : AddTask(d, w)
    \/ AddTaskEmpty
    \/ \E id \in 1..MaxId, w \in WriteOutcomes : MarkTaskAsDone(id, w)
    \/ \E w \in WriteOutcomes : ClearAllTasks(w)
    \/ \E id \in 1..MaxId, steps \in StepLists, w \in WriteOutcomes : ReplaceTasksFromId(id, steps, w)
    \/ \E rd \in BOOLEAN, w \in WriteOutcomes : LoadLogForActiveProject(rd, w)

\* The Mission Log service with the history of its operations.

SpecLog == LogInit("ops") /\ [][LogNext]_vars

\* The Mission Log service with the history of the ids it handed out.
SpecIds == LogInit("ids") /\ [][LogNext]_vars

\* ------------------------------------------------------------ Tool Runner

\* Longest path, in components, that a tool call names.
MaxPathLen == 2

\* project_manager.active_project_path, as the components below "/".
BasePath == <<"ws">>

\* A path string is [abs, parts]: "/ws/a" is [abs |-> TRUE, parts |-> <<"ws",
\* "a">>], "../a" is [abs |-> FALSE, parts |-> <<"..", "a">>] and "" is
\* [abs |-> FALSE, parts |-> <<>>].
PathStrings ==
    {[abs |-> FALSE, parts |-> q] : q \in SeqsUpTo({"..", "a"}, MaxPathLen)}
        \cup {[abs |-> TRUE, parts |-> q] : q \in SeqsUpTo({"..", "a", "ws"}, MaxPathLen)}

PATH_PARAM_KEYS == {"path", "source_path", "destination_path", "requirements_path"}

\* inspect.signature(action_function).parameters of three file-system actions.
Signature(tool) ==
    IF tool = "write_file" THEN {"path", "content"}
    ELSE IF tool = "read_file" THEN {"path"}
    ELSE {"source_path", "destination_path"}

Tools == {"write_file", "copy_file", "read_file"}

\* The tools that change the workspace; read_file only reads it.
MutatingTools == {"write_file", "copy_file"}

\* The arguments an LLM tool call can carry for a tool: a path string for
\* every path parameter of its action.
ArgumentSets(tool) == [Signature(tool) \cap PATH_PARAM_KEYS -> PathStrings]

\* Path.resolve() on an absolute path without symbolic links: ".." steps up
\* and stays at "/" there.
RECURSIVE Normalize(_, _)
Normalize(done, rest) ==
    IF rest = <<>> THEN done
    ELSE IF Head(rest) = ".."
         THEN Normalize(IF done = <<>> THEN <<>> ELSE SubSeq(done, 1, Len(done) - 1),
                        Tail(rest))
         ELSE Normalize(Append(done, Head(rest)), Tail(rest))

\* (base_path / path_obj).resolve()
ResolveAgainstBase(p) == [abs |-> TRUE, parts |-> Normalize(<<>>, BasePath \o p.parts)]

\* _prepare_parameters, the path part: a non-empty relative path is resolved
\* against the project root, every other value is passed on as it is.
prepare_parameters(tool, action_params) ==
    [key \in DOMAIN action_params |->
        IF key \in PATH_PARAM_KEYS /\ key \in Signature(tool)
           /\ action_params[key].parts # <<>> /\ ~action_params[key].abs
        THEN ResolveAgainstBase(action_params[key])
        ELSE action_params[key]]

\* id(invocation): the address of the BlueprintInvocation, which a later
\* invocation can be given again.
WidgetIds == {1, 2}

\* What an action function can return or do: a result, named below, or
\* "raises" for an exception.
ActionOutcomes ==
    {"text", "error_text", "failed_text", "not_found_text", "dict_success",
     "dict_failure", "dict_FAILURE", "dict_no_status", "none", "raises"}

\* The results as the classifiers see them. A string is the sequence of its
\* words, " " being white space at its ends; a mapping is its status, summary
\* and full_output entries, "absent" for a key it does not have.
\* "exception_text" is the string run_tool builds in its except branch.
Shape(result) ==
    CASE result = "none" -> [type |-> "NoneType"]
      [] result = "text" -> [type |-> "str", words |-> <<"Successfully", "wrote">>]
      [] result = "error_text" -> [type |-> "str", words |-> <<" ", "Error", "reading">>]
      [] result = "failed_text" -> [type |-> "str", words |-> <<"Command", "Failed">>]
      [] result = "not_found_text" -> [type |-> "str", words |-> <<"File", "not found">>]
      [] result = "exception_text" ->
             [type |-> "str", words |-> <<"cross", "Error", "executing", "Blueprint">>]
      [] result = "dict_success" ->
             [type |-> "dict", status |-> "success", summary |-> "absent",
              full_output |-> "output"]
      [] result = "dict_failure" ->
             [type |-> "dict", status |-> "failure", summary |-> "absent",
              full_output |-> "output"]
      [] result = "dict_FAILURE" ->
             [type |-> "dict", status |-> "FAILURE", summary |-> "summary",
              full_output |-> "output"]
      [] result = "dict_no_status" ->
             [type |-> "dict", status |-> "absent", summary |-> "absent",
              full_output |-> "absent"]

\* str.lower() on a word.
Lower(word) ==
    CASE word = "Error" -> "error"
      [] word = "Failed" -> "failed"
      [] word = "FAILURE" -> "failure"
      [] OTHER -> word

\* str.strip() on the words of a string.
RECURSIVE Strip(_)
Strip(words) ==
    IF words = <<>> THEN <<>>
    ELSE IF Head(words) = " " THEN Strip(Tail(words))
    ELSE IF words[Len(words)] = " " THEN Strip(SubSeq(words, 1, Len(words) - 1))
    ELSE words

\* result.strip().lower()
StripLower(words) == [i \in 1..Len(Strip(words)) |-> Lower(Strip(words)[i])]

StartsWith(words, word) == words # <<>> /\ Head(words) = word

Contains(words, word) == \E i \in 1..Len(words) : words[i] = word

\* The status check of run_tool (lines 108-113) and its except branch, which
\* leaves the status at "FAILURE".
RunToolStatus(outcome) ==
    IF outcome = "raises" THEN "FAILURE"
    ELSE LET result == Shape(outcome)
         IN IF result.type = "str" /\ StartsWith(StripLower(result.words), "error")
            THEN "FAILURE"
            ELSE IF result.type = "dict" /\ result.status \in {"failure", "error"}
            THEN "FAILURE"
            ELSE "SUCCESS"

\* What run_tool returns: the action's result, or the text of its exception.
RunToolResult(outcome) == IF outcome = "raises" THEN "exception_text" ELSE outcome

\* A run_tool that emits tool_call_completed at the end of its try block
\* instead of in "finally": nothing is emitted when the action raises.
RunToolEventsInTry(outcome) ==
    IF outcome = "raises" THEN <<>>
    ELSE (IF RunToolStatus(outcome) = "SUCCESS" THEN <<"refresh_file_tree">> ELSE <<>>)
             \o <<"tool_call_completed", RunToolStatus(outcome)>>

\* The events run_tool emits from the call of the action function on;
\* tool_call_completed is followed by the status it carries.
RunToolEvents(outcome) ==
    (IF RunToolStatus(outcome) = "SUCCESS" THEN <<"refresh_file_tree">> ELSE <<>>)
        \o <<"tool_call_completed", RunToolStatus(outcome)>>

\* run_tool up to "await asyncio.sleep(0.1)": the parameters are prepared and
\* tool_call_initiated is emitted.
ToolCallInitiated(tool, args, widget_id) ==
    /\ tr_pc \in {"idle", "completed"}
    /\ tr_pc' = "initiated"
    /\ tr_widget' = widget_id
    /\ tr_tool' = tool
    /\ tr_params' = prepare_parameters(tool, args)
    /\ tr_result' = "none"
    /\ tr_status' = "FAILURE"
    /\ tr_ran' = FALSE
    /\ out' = Emit(Svc, <<"tool_call_initiated">>)
    /\ UNCHANGED <<tasks, next_task_id, initial_user_goal, disk, lastOp, issued,
                   reused, diskFresh, track, condVars, llmVars, busVars,
                   promptVars, selVars, srvVars>>

\* run_tool from the call of the action function to its return.
ToolCallCompleted(outcome) ==
    /\ tr_pc = "initiated"
    /\ tr_pc' = "completed"
    /\ tr_ran' = TRUE
    /\ tr_result' = RunToolResult(outcome)
    /\ tr_status' = RunToolStatus(outcome)
    /\ out' = Emit(Svc, RunToolEvents(outcome))
    /\ UNCHANGED <<tr_tool, tr_params, tr_widget, tasks, next_task_id,
                   initial_user_goal, disk, lastOp, issued, reused, diskFresh,
                   track, condVars, llmVars, busVars, promptVars, selVars, srvVars>>

ToolNext ==
    \/ \E tool \in Tools : \E args \in ArgumentSets(tool) :
           \E widget_id \in WidgetIds : ToolCallInitiated(tool, args, widget_id)
    \/ \E outcome \in ActionOutcomes : ToolCallCompleted(outcome)

\* The Tool Runner driven with tool calls.
SpecTool == LogInit("ops") /\ [][ToolNext]_vars

\* ===================================================================
\* Mission control and the Conductor (services/conductor_service.py,
\* api/agent.py). One user; every dispatch request gets its own service stack
\* (dependencies.get_aura_services) and its own background task, and all of
\* them share the user's registry entry and the project's log file. A
\* background task is at rest only where it awaits the network, a tool, a
\* websocket send or a sleep: a step of the model runs from one such await to
\* the next. The registry calls are constant-time and do not suspend.
\* ===================================================================

MAX_RETRIES_PER_TASK == 1

\* MissionStatus of the user in the process-wide registry.
NoStatus == [running |-> FALSE, stop_requested |-> FALSE]

set_mission_running(status) == [running |-> TRUE, stop_requested |-> FALSE]

set_mission_finished(status) == NoStatus

request_mission_stop(status) ==
    IF status.running THEN [status EXCEPT !.stop_requested = TRUE] ELSE status

is_mission_running(status) == status.running /\ ~status.stop_requested

\* A Conductor that takes the last pending task of the snapshot.
LastPendingId(ts) ==
    LET pending == {i \in 1..Len(ts) : ~ts[i].done}
    IN  IF pending = {} THEN 0
        ELSE ts[CHOOSE i \in pending : \A j \in pending : i >= j].id

\* get_tasks(done=False)[0]['id'], 0 when no task is pending.
FirstPendingId(ts) ==
    LET pending == {i \in 1..Len(ts) : ~ts[i].done}
    IN  IF pending = {} THEN 0
        ELSE ts[CHOOSE i \in pending : \A j \in pending : i <= j].id

\* A variant that keeps the first error recorded for the task.
SetLastErrorOnce(ts, task_id, message) ==
    [i \in 1..Len(ts) |->
        IF ts[i].id = task_id /\ ts[i].last_error = "none"
        THEN [ts[i] EXCEPT !.last_error = message] ELSE ts[i]]

\* current_task['last_error'] = message: current_task is the dict held in
\* the log's list, so the log in memory changes and nothing is saved.
SetLastError(ts, task_id, message) ==
    [i \in 1..Len(ts) |->
        IF ts[i].id = task_id THEN [ts[i] EXCEPT !.last_error = message] ELSE ts[i]]

\* What the coder LLM call of _get_tool_call_for_task comes to.
SelectionOutcomes == {"tool_call", "no_tool_call", "raises"}

\* What the action function of an attempt's tool run comes to.
ToolOutcomes == {"text", "error_text", "not_found_text", "raises"}

\* _is_result_an_error, its flag.
is_result_an_error(result) ==
    LET r == Shape(result)
    IN \/ r.type = "NoneType"
       \/ /\ r.type = "str"
          /\ \/ StartsWith(StripLower(r.words), "error")
             \/ Contains(StripLower(r.words), "failed")
       \/ /\ r.type = "dict"
          /\ Lower(IF r.status = "absent" THEN "success" ELSE r.status)
                 \in {"failure", "error"}

\* What the Replanner call comes to: a plan, or no usable answer.
ReplanPlans == {<<"b">>, <<"">>}

ReplanOutcomes == {"gateway_error", "empty_plan", "raises"}

\* What the summary call comes to: a text, a blank reply or an exception;
\* "not_called" when no task is done and the LLM is not asked.
SummaryOutcomes == {"text", "blank", "raises", "not_called"}

\* A generate_mission_summary that returns the stripped reply as it is.
generate_mission_summary_unchecked(ts, outcome) ==
    IF ~\E i \in 1..Len(ts) : ts[i].done THEN "Mission accomplished!"
    ELSE IF outcome = "blank" THEN ""
    ELSE "summary"

\* generate_mission_summary: the stripped reply of the chat role, or
\* "Mission accomplished!" for a blank reply and when no task is done.
generate_mission_summary(ts, outcome) ==
    IF ~\E i \in 1..Len(ts) : ts[i].done THEN "Mission accomplished!"
    ELSE IF outcome = "blank" THEN "Mission accomplished!"
    ELSE "summary"

\* _post_chat_message(user_id, "Aura", message): a blank message is not sent.
post_chat_message(message, event) == IF message = "" THEN <<>> ELSE <<event>>

\* The positions between set_mission_running and set_mission_finished.
LoopPcs == {"top", "retry", "select", "tool", "replan", "summary", "finally"}

\* The positions of an attempt: current_task is taken and pending, the retry
\* loop has not ended.
TaskPcs == {"retry", "select", "tool"}

\* Line 181 without the test of the attempt's success.
AfterRetryLoopAlways(succeeded, status) ==
    IF is_mission_running(status) THEN "replan" ELSE "top"

\* Line 181: the Replanner, or the sleep that leads to the top of the loop.
AfterRetryLoop(succeeded, status) ==
    IF ~succeeded /\ is_mission_running(status) THEN "replan" ELSE "top"

\* A retry loop without a budget: it goes on while the mission runs.
RetryLoopHeadUnbounded(retries, status) ==
    IF is_mission_running(status) THEN "select" ELSE AfterRetryLoop(FALSE, status)

\* Lines 152-154 and 181: the head of the retry loop after retries failed
\* attempts, and what follows the loop when it ends there.
RetryLoopHead(retries, status) ==
    IF retries <= MAX_RETRIES_PER_TASK /\ is_mission_running(status)
    THEN "select"
    ELSE AfterRetryLoop(FALSE, status)

\* The events on the way to the next position.
EventsTo(position) ==
    IF position = "select" THEN <<"log:executing_task">>
    ELSE IF position = "replan" THEN <<"system_log:stuck">>
    ELSE <<>>

LogSilent ==
    UNCHANGED <<lastOp, issued, reused, diskFresh, track, toolVars, llmVars, busVars,
                promptVars, selVars, srvVars>>

LogUntouched == UNCHANGED <<tasks, next_task_id, initial_user_goal, disk>>

\* History of the failed attempts: message is the error message of the last
\* failed attempt of mission m at its current task, "none" once the mission
\* has left the task.
LastFailure(m, message) ==
    last_failure' = [last_failure EXCEPT ![m] =
                        IF pc'[m] \in TaskPcs \cup {"replan"} THEN message ELSE "none"]

\* POST /dispatch (dispatch_agent_mission): the background task is queued.
\* The requests are numbered in the order of their arrival.
DispatchAgentMission(m) ==
    /\ pc[m] = "none"
    /\ \A k \in Missions : k < m => pc[k] # "none"
    /\ pc' = [pc EXCEPT ![m] = "queued"]
    /\ out' = NoEvents
    /\ LogUntouched /\ LogSilent
    /\ UNCHANGED <<last_failure, current_task, retry_count, task_succeeded, registry, stopped>>

\* POST /stop (stop_agent_mission).
StopAgentMission ==
    /\ registry' = request_mission_stop(registry)
    /\ stopped' = [m \in Missions |->
                    stopped[m] \/ (is_mission_running(registry) /\ pc[m] \in TaskPcs)]
    /\ out' = NoEvents
    /\ LogUntouched /\ LogSilent
    /\ UNCHANGED <<last_failure, pc, current_task, retry_count, task_succeeded>>

\* The log of service stack m becomes L, in memory.
SetLog(m, L) ==
    /\ tasks' = [tasks EXCEPT ![m] = L.tasks]
    /\ next_task_id' = [next_task_id EXCEPT ![m] = L.next_id]
    /\ initial_user_goal' = [initial_user_goal EXCEPT ![m] = L.goal]

\* run_dispatch_task up to the first test of the loop: the log is loaded
\* and saved, the mission is set running, the start is announced.
RunDispatchTask(m) ==
    /\ pc[m] = "queued"
    /\ LET L == load_log(disk, TRUE)
       IN  /\ SetLog(m, L)
           /\ disk' = save_and_notify(L, TRUE).file
           /\ out' = Emit(m, save_and_notify(L, TRUE).events
                              \o <<"system_log:dispatched", "agent_status:thinking">>)
    /\ registry' = set_mission_running(registry)
    /\ pc' = [pc EXCEPT ![m] = "top"]
    /\ LogSilent
    /\ LastFailure(m, last_failure[m])
    /\ UNCHANGED <<current_task, retry_count, task_succeeded, stopped>>

\* Lines 134-150: the top of the outer loop.
LoopTop(m) ==
    /\ pc[m] = "top"
    /\ IF ~is_mission_running(registry)
       THEN /\ pc' = [pc EXCEPT ![m] = "finally"]
            /\ out' = Emit(m, <<"system_log:halted">>)
            /\ UNCHANGED <<current_task, retry_count, task_succeeded>>
       ELSE IF FirstPendingId(tasks[m]) = 0
       THEN /\ pc' = [pc EXCEPT ![m] = "summary"]
            /\ out' = NoEvents
            /\ UNCHANGED <<current_task, retry_count, task_succeeded>>
       ELSE /\ pc' = [pc EXCEPT ![m] = "retry"]
            /\ current_task' = [current_task EXCEPT ![m] = FirstPendingId(tasks[m])]
            /\ retry_count' = [retry_count EXCEPT ![m] = 0]
            /\ task_succeeded' = [task_succeeded EXCEPT ![m] = FALSE]
            /\ out' = Emit(m, <<"active_task_updated">>)
    /\ LastFailure(m, "none")
    /\ LogUntouched /\ LogSilent
    /\ UNCHANGED <<registry, stopped>>

\* Lines 152-155 and 181-186 after a websocket send: the head of the retry
\* loop, entered from the top of the outer loop or after a failed tool run.
RetryLoop(m) ==
    /\ pc[m] = "retry"
    /\ LET position == RetryLoopHead(retry_count[m], registry)
       IN  /\ pc' = [pc EXCEPT ![m] = position]
           /\ out' = Emit(m, EventsTo(position))
    /\ LogUntouched /\ LogSilent
    /\ LastFailure(m, last_failure[m])
    /\ UNCHANGED <<current_task, retry_count, task_succeeded, registry, stopped>>

\* Lines 188-191: an exception ends the loop with mission_failure.
CriticalError(m) ==
    /\ pc' = [pc EXCEPT ![m] = "finally"]
    /\ out' = Emit(m, <<"system_log:critical", "mission_failure">>)

\* Lines 156-165: the coder call returns. Without a tool call the attempt
\* has failed and the loop goes on at its head without a further await.
SelectToolCall(m, outcome) ==
    /\ pc[m] = "select"
    /\ IF outcome = "raises"
       THEN /\ CriticalError(m)
            /\ LastFailure(m, last_failure[m])
            /\ UNCHANGED <<tasks, retry_count>>
       ELSE IF outcome = "tool_call"
       THEN /\ pc' = [pc EXCEPT ![m] = "tool"]
            /\ out' = Emit(m, <<"tool_call_initiated">>)
            /\ LastFailure(m, last_failure[m])
            /\ UNCHANGED <<tasks, retry_count>>
       ELSE LET position == RetryLoopHead(retry_count[m] + 1, registry)
            IN  /\ tasks' = [tasks EXCEPT ![m] =
                                SetLastError(@, current_task[m], "no_tool_call")]
                /\ retry_count' = [retry_count EXCEPT ![m] = @ + 1]
                /\ pc' = [pc EXCEPT ![m] = position]
                /\ LastFailure(m, "no_tool_call")
                /\ out' = Emit(m, EventsTo(position))
    /\ LogSilent
    /\ UNCHANGED <<next_task_id, initial_user_goal, disk, current_task,
                   task_succeeded, registry, stopped>>

\* Lines 165-186: the tool run returns. A success marks the task done, is
\* announced and leads past the retry loop to the sleep; a failure is
\* announced and leads to the head of the retry loop.
ToolReturns(m, outcome) ==
    /\ pc[m] = "tool"
    /\ IF ~is_result_an_error(RunToolResult(outcome))
       THEN LET r == mark_task_as_done(LogOf(m), current_task[m])
            IN  /\ SetLog(m, r.log)
                /\ disk' = IF r.save THEN save_and_notify(r.log, TRUE).file ELSE disk
                /\ out' = Emit(m, RunToolEvents(outcome)
                                   \o (IF r.save THEN save_and_notify(r.log, TRUE).events
                                       ELSE <<>>)
                                   \o <<"system_log:task_completed">>)
                /\ task_succeeded' = [task_succeeded EXCEPT ![m] = TRUE]
                /\ pc' = [pc EXCEPT ![m] = AfterRetryLoop(TRUE, registry)]
                /\ LastFailure(m, "none")
                /\ UNCHANGED retry_count
       ELSE /\ tasks' = [tasks EXCEPT ![m] =
                            SetLastError(@, current_task[m], RunToolResult(outcome))]
            /\ retry_count' = [retry_count EXCEPT ![m] = @ + 1]
            /\ out' = Emit(m, RunToolEvents(outcome) \o <<"system_log:task_failed">>)
            /\ pc' = [pc EXCEPT ![m] = "retry"]
            /\ LastFailure(m, RunToolResult(outcome))
            /\ UNCHANGED <<next_task_id, initial_user_goal, disk, task_succeeded>>
    /\ LogSilent
    /\ UNCHANGED <<current_task, registry, stopped>>

\* run_strategic_replan with a plan: the failed task and what follows it are
\* replaced; an empty description raises after the truncation.
ReplanWithPlan(m, steps) ==
    /\ pc[m] = "replan"
    /\ next_task_id[m] + Len(steps) - 1 <= MaxId
    /\ LET r == replace_tasks_from_id(LogOf(m), current_task[m], steps)
       IN  /\ SetLog(m, r.log)
           /\ disk' = IF r.save THEN save_and_notify(r.log, TRUE).file ELSE disk
           /\ out' = Emit(m, IF r.raised THEN <<"system_log:replan_error">>
                             ELSE (IF r.save THEN save_and_notify(r.log, TRUE).events
                                   ELSE <<>>) \o <<"aura_response:new_plan">>)
    /\ pc' = [pc EXCEPT ![m] = "top"]
    /\ LogSilent
    /\ LastFailure(m, last_failure[m])
    /\ UNCHANGED <<current_task, retry_count, task_succeeded, registry, stopped>>

\* run_strategic_replan without a usable answer: the error is posted and the
\* log stays as it is; an exception of the call ends the loop.
ReplanFails(m, outcome) ==
    /\ pc[m] = "replan"
    /\ IF outcome = "raises"
       THEN CriticalError(m)
       ELSE /\ pc' = [pc EXCEPT ![m] = "top"]
            /\ out' = Emit(m, <<"system_log:replan_error">>)
    /\ LogUntouched /\ LogSilent
    /\ LastFailure(m, last_failure[m])
    /\ UNCHANGED <<current_task, retry_count, task_succeeded, registry, stopped>>

\* _handle_mission_completion: the summary is posted, then mission_success.
HandleMissionCompletion(m, outcome) ==
    /\ pc[m] = "summary"
    /\ (outcome = "not_called") = (~\E i \in 1..Len(tasks[m]) : tasks[m][i].done)
    /\ IF outcome = "raises"
       THEN CriticalError(m)
       ELSE /\ pc' = [pc EXCEPT ![m] = "finally"]
            /\ out' = Emit(m, post_chat_message(generate_mission_summary(tasks[m], outcome),
                                                "aura_response:summary")
                                  \o <<"mission_success">>)
    /\ LogUntouched /\ LogSilent
    /\ LastFailure(m, last_failure[m])
    /\ UNCHANGED <<current_task, retry_count, task_succeeded, registry, stopped>>

\* The finally blocks of execute_mission_in_background and of
\* background_task_handler: the mission is set finished, idle is sent twice.
MissionFinished(m) ==
    /\ pc[m] = "finally"
    /\ registry' = set_mission_finished(registry)
    /\ pc' = [pc EXCEPT ![m] = "done"]
    /\ out' = Emit(m, <<"agent_status:idle", "agent_status:idle">>)
    /\ LogUntouched /\ LogSilent
    /\ LastFailure(m, last_failure[m])
    /\ UNCHANGED <<current_task, retry_count, task_succeeded, stopped>>

\* The steps of the background task of dispatch request m.
MissionStep(m) ==
    \/ RunDispatchTask(m)
    \/ LoopTop(m)
    \/ RetryLoop(m)
    \/ \E outcome \in SelectionOutcomes : SelectToolCall(m, outcome)
    \/ \E outcome \in ToolOutcomes : ToolReturns(m, outcome)
    \/ \E steps \in ReplanPlans : ReplanWithPlan(m, steps)
    \/ \E outcome \in ReplanOutcomes : ReplanFails(m, outcome)
    \/ \E outcome \in SummaryOutcomes : HandleMissionCompletion(m, outcome)
    \/ MissionFinished(m)

ConductorNext ==
    \/ \E m \in Missions : DispatchAgentMission(m)
    \/ StopAgentMission
    \/ \E m \in Missions : MissionStep(m)

\* The plan the Planner saved before the dispatch.
PlannedSteps == <<"a">>

\* The project dispatched holds the log of a plan, or no log file at all:
\* dispatch_agent_mission asks for neither.
ConductorInit ==
    /\ Constructed("ops")
    /\ disk \in {NoFile, FileOf(set_initial_plan(EmptyLog, PlannedSteps, "g").log)}

\* The Conductor under dispatch and stop requests.
SpecConductor == ConductorInit /\ [][ConductorNext]_vars

\* The same with every queued or running background task scheduled again
\* and again by the event loop.
SpecConductorFair ==
    SpecConductor /\ \A m \in Missions : WF_vars(MissionStep(m))

\* ------------------------------------------------------------------ C1
\* The events the last step of mission m emitted.
Emitted(m) == {out[m][i] : i \in DOMAIN out[m]}

\* C1: a task is attempted at most twice within one iteration of the outer
\* loop (the retry budget is exactly 1), and the Replanner is invoked exactly
\* when both attempts have failed and the mission is still running: never
\* after a success, never after a single failure.
C1_TwoAttemptsThenReplan ==
    /\ [](\A m \in Missions :
            /\ retry_count[m] <= 2
            /\ pc[m] \in {"select", "tool"} => retry_count[m] <= 1
            /\ pc[m] = "replan" => retry_count[m] = 2 /\ ~task_succeeded[m])
    /\ [][\A m \in Missions :
            /\ (pc[m] # "replan" /\ pc'[m] = "replan")
                   => retry_count'[m] = 2 /\ is_mission_running(registry)
            /\ (pc[m] \in {"retry", "select"} /\ pc'[m] \in {"top", "replan"}
                  /\ retry_count'[m] = 2 /\ is_mission_running(registry))
                   => pc'[m] = "replan"]_vars

\* The Replanner has been invoked after the second failed attempt of a task
\* while another mission of the user is in its loop.
C1_Witness ==
    \E m, k \in Missions :
        /\ m # k
        /\ pc[m] = "replan" /\ retry_count[m] = 2
        /\ "system_log:stuck" \in Emitted(m)
        /\ pc[k] \in TaskPcs

\* ------------------------------------------------------------------ C2
\* C2: once stop() has been requested while a mission executed a task, that
\* mission emits neither mission_success nor mission_failure.
C2_NoOutcomeAfterStop ==
    \A m \in Missions :
        stopped[m] => "mission_success" \notin Emitted(m)
                      /\ "mission_failure" \notin Emitted(m)

\* ------------------------------------------------------------------ C3
\* C3: once stop() has been requested while a mission executed a task, and
\* as long as its calls return, the mission starts no further attempt, does
\* not invoke the Replanner, takes no further task at the top of the loop,
\* and leaves the loop by posting "Mission execution halted by user.".
C3_StopHaltsAtNextBoundary ==
    \A m \in Missions :
        stopped[m] =>
            /\ "log:executing_task" \notin Emitted(m)
            /\ "system_log:stuck" \notin Emitted(m)
            /\ "active_task_updated" \notin Emitted(m)
            /\ pc[m] \notin {"replan", "summary"}
            /\ (pc[m] = "finally" /\ Emitted(m) # {}
                  /\ "mission_failure" \notin Emitted(m))
                   => "system_log:halted" \in Emitted(m)

\* ------------------------------------------------------------------ C4
\* The events emitted on the event bus of the service stack; every other
\* event is sent to the user's websocket clients.
BusOnlyEvents ==
    {"log:executing_task", "tool_call_initiated", "tool_call_completed",
     "SUCCESS", "FAILURE", "refresh_file_tree", "mission_log_updated"}

TaskPending(ts, task_id) ==
    \E i \in 1..Len(ts) : ts[i].id = task_id /\ ~ts[i].done

\* C4: once stop() has been requested while a mission executed a task, the
\* task it executed stays pending and the mission sends the clients nothing
\* but the halted system_log and agent_status(idle).
C4_StopLeavesTaskPending ==
    \A m \in Missions :
        stopped[m] =>
            /\ TaskPending(tasks[m], current_task[m])
            /\ Emitted(m) \ BusOnlyEvents
                   \subseteq {"system_log:halted", "agent_status:idle"}

\* ------------------------------------------------------------------ C5
\* C5: at no time are two execution loops active for the same user; a
\* dispatch that arrives while a mission runs starts no second loop.
C5_OneLoopPerUser ==
    Cardinality({m \in Missions : pc[m] \in LoopPcs}) <= 1

\* ------------------------------------------------------------------ C6
\* C6: every dispatched mission reaches its end (success, failure or stop),
\* also when every attempt and every Replanner call fails.
C6_EveryMissionEnds ==
    \A m \in Missions : (pc[m] = "queued") ~> (pc[m] = "done")

\* ------------------------------------------------------------------ C7
\* The absolute location a handed path names: a relative one is taken from
\* the process's working directory "/".
Location(p) == Normalize(<<>>, p.parts)

InsideBase(p) ==
    /\ p.abs
    /\ Len(Location(p)) >= Len(BasePath)
    /\ SubSeq(Location(p), 1, Len(BasePath)) = BasePath

\* C7: every path parameter handed to a tool action is a descendant of the
\* active project root, or the invocation is a FAILURE that never ran the
\* action.
C7_PathsInsideRootOrFailure ==
    tr_pc # "idle" =>
        \/ \A key \in DOMAIN tr_params \cap PATH_PARAM_KEYS : InsideBase(tr_params[key])
        \/ (tr_pc = "completed" => tr_status = "FAILURE" /\ ~tr_ran)

\* ------------------------------------------------------------------ C8
\* C8: in every reachable state of the Mission Log, _next_task_id is greater
\* than the id of every task in the log, and the ids in the log are strictly
\* increasing in sequence order.
C8_NextIdAboveIncreasingIds ==
    \A m \in Missions :
        /\ \A i \in 1..Len(tasks[m]) : tasks[m][i].id < next_task_id[m]
        /\ \A i, j \in 1..Len(tasks[m]) : i < j => tasks[m][i].id < tasks[m][j].id

\* A log reloaded from the file after a replacement left a gap in its ids.
C8_Witness ==
    /\ lastOp = "load_log_for_active_project"
    /\ Len(tasks[Svc]) >= 2
    /\ tasks[Svc][2].id > tasks[Svc][1].id + 1
    /\ tasks[Svc][1].done

\* ------------------------------------------------------------------ C9
\* C9: within one mission an id that add_task has issued is never issued
\* again, also not after replace_tasks_from_id dropped its task and the log
\* was saved and reloaded.
C9_NoIdReissued == ~reused

\* ----------------------------------------------------------------- C10
\* The first k steps of a plan, k the number of steps before the first empty
\* description.
RECURSIVE BeforeEmpty(_)
BeforeEmpty(steps) ==
    IF steps = <<>> \/ Head(steps) = "" THEN <<>>
    ELSE <<Head(steps)>> \o BeforeEmpty(Tail(steps))

OneTaskPerStep(ts, steps) ==
    /\ Len(ts) = Len(steps)
    /\ \A i \in 1..Len(steps) :
        ts[i].id = i /\ ts[i].description = steps[i] /\ ~ts[i].done

IndexThenOneTaskPerStep(ts, steps) ==
    /\ Len(ts) = Len(steps) + 1
    /\ ts[1] = NewTask(1, INDEX_DESC, INDEX_TOOL)
    /\ \A i \in 1..Len(steps) : ts[i + 1] = NewTask(i + 1, steps[i], "none")

\* C10 as claimed: after set_initial_plan(steps, user_goal) the log holds
\* exactly one pending task per step, in order, with ids from 1, and the goal.
C10_OneTaskPerStep ==
    [][\A steps \in StepLists, g \in Goals, w \in WriteOutcomes :
        SetInitialPlan(steps, g, w) =>
            /\ OneTaskPerStep(tasks'[Svc], steps)
            /\ initial_user_goal'[Svc] = g]_vars

\* C10 amended: after set_initial_plan(steps, user_goal) on any prior log the
\* log holds the indexing task (id 1) and then one pending task per step that
\* precedes the first empty description, in order, with ids from 2; the goal
\* is user_goal; nothing of the previous plan remains.
C10_IndexTaskThenOneTaskPerStep ==
    [][\A steps \in StepLists, g \in Goals, w \in WriteOutcomes :
        (lastOp' = "set_initial_plan" /\ SetInitialPlan(steps, g, w)) =>
            /\ IndexThenOneTaskPerStep(tasks'[Svc], BeforeEmpty(steps))
            /\ next_task_id'[Svc] = Len(BeforeEmpty(steps)) + 2
            /\ initial_user_goal'[Svc] = g]_vars

\* A plan of two different steps has just been set.
C10_Witness ==
    /\ lastOp = "set_initial_plan"
    /\ Len(tasks[Svc]) = 3
    /\ tasks[Svc][2].description = "b"
    /\ tasks[Svc][3].description = "a"
    /\ disk.tasks = tasks[Svc]

\* ----------------------------------------------------------------- C11
\* The tasks replace_tasks_from_id is claimed to append: one pending task per
\* step, in order, with the ids from first_id on.
TasksForSteps(steps, first_id) ==
    [k \in 1..Len(steps) |-> NewTask(first_id + k - 1, steps[k], "none")]

PositionOf(ts, task_id) ==
    CHOOSE i \in 1..Len(ts) : ts[i].id = task_id /\ \A j \in 1..(i - 1) : ts[j].id # task_id

\* C11: replace_tasks_from_id(task_id, new_steps) with task_id at position i
\* yields the tasks before position i, unchanged, followed by one new pending
\* task per element of new_steps, in order, with fresh ids; with task_id not
\* in the log it leaves the log, next_id and the file unchanged.
C11_ReplaceKeepsHeadAddsSteps ==
    [][\A id \in 1..MaxId, steps \in StepLists, w \in WriteOutcomes :
        ReplaceTasksFromId(id, steps, w) =>
            IF id \in TaskIds(tasks[Svc])
            THEN /\ tasks'[Svc] =
                        SubSeq(tasks[Svc], 1, PositionOf(tasks[Svc], id) - 1)
                            \o TasksForSteps(steps, next_task_id[Svc])
                 /\ next_task_id'[Svc] = next_task_id[Svc] + Len(steps)
            ELSE /\ tasks'[Svc] = tasks[Svc]
                 /\ next_task_id'[Svc] = next_task_id[Svc]
                 /\ disk' = disk]_vars

\* ----------------------------------------------------------------- C12
IsDone(ts, task_id) == \E i \in 1..Len(ts) : ts[i].id = task_id /\ ts[i].done

\* C12: mark_task_as_done on a task that is already done leaves the log and
\* the file unchanged and emits no mission_log_updated; on an id that is not
\* in the log it changes nothing and raises no error.
C12_MarkDoneIdempotent ==
    [][\A id \in 1..MaxId, w \in WriteOutcomes :
        (/\ lastOp' = "mark_task_as_done"
         /\ IsDone(tasks[Svc], id) \/ id \notin TaskIds(tasks[Svc])
         /\ MarkTaskAsDone(id, w))
        => /\ tasks' = tasks
           /\ next_task_id' = next_task_id
           /\ initial_user_goal' = initial_user_goal
           /\ disk' = disk
           /\ out' = NoEvents
           /\ ~mark_task_as_done(LogOf(Svc), id).raised]_vars

\* Every id that can be passed is in the log and done, and the last call of
\* mark_task_as_done saved nothing: it was a repeated call.
C12_Witness ==
    /\ lastOp = "mark_task_as_done"
    /\ out = NoEvents
    /\ TaskIds(tasks[Svc]) = 1..MaxId
    /\ \A i \in 1..Len(tasks[Svc]) : tasks[Svc][i].done
    /\ disk.tasks = tasks[Svc]

\* ----------------------------------------------------------------- C13
\* The mutators with the IOError branch of _save_and_notify taken.
WriteFails ==
    \/ \E steps \in StepLists, g \in Goals : SetInitialPlan(steps, g, FALSE)
    \/ \E d \in Descs : AddTask(d, FALSE)
    \/ \E id \in 1..MaxId : MarkTaskAsDone(id, FALSE)
    \/ ClearAllTasks(FALSE)
    \/ \E id \in 1..MaxId, steps \in StepLists : ReplaceTasksFromId(id, steps, FALSE)

WriteNext == LogNext \/ WriteFails

\* The Mission Log service on a disk whose writes can fail.
SpecWrite == LogInit("writes") /\ [][WriteNext]_vars

\* C13: when a mutator has emitted mission_log_updated, the file holds the
\* new state of the log: the event follows a write that succeeded and is not
\* emitted when the write fails.
C13_NotifiedOnlyAfterWrite ==
    "mission_log_updated" \in Emitted(Svc) => disk = FileOf(LogOf(Svc))

\* ----------------------------------------------------------------- C14
\* C14: for every state of the Mission Log, saving it and loading the saved
\* file reproduces the initial goal, the task sequence and next_id.
C14_SaveLoadRoundTrip ==
    load_log(FileOf(LogOf(Svc)), TRUE) = LogOf(Svc)

\* ----------------------------------------------------------------- C15
\* C15: whenever the process could die, the file marks done every task that
\* a running mission has marked done, and a mission that loaded the file
\* works on the first task not done in the file and runs no tool for a task
\* that is done in the file.
C15_DiskKeepsDoneMarks ==
    \A m \in Missions :
        pc[m] \in LoopPcs =>
            /\ \A i \in 1..Len(tasks[m]) :
                   tasks[m][i].done => IsDone(disk.tasks, tasks[m][i].id)
            /\ pc[m] \in TaskPcs => current_task[m] = FirstPendingId(disk.tasks)
            /\ pc[m] = "tool" => ~IsDone(disk.tasks, current_task[m])


\* failed_task.get('last_error') / current_task.get('last_error'): what the
\* next tool selection and the Replanner read from the held task.
LastErrorOf(ts, task_id) == ts[PositionOf(ts, task_id)].last_error

\* C16: after an attempt the Conductor classified as a failure, and until
\* the task is left, the held task's last_error is that attempt's error
\* message: at the head of the retry loop, at the next tool selection, during
\* the tool run that follows, and when the Replanner is invoked, which is
\* never invoked without a failed attempt before it.
C16_LastErrorIsLastFailure ==
    \A m \in Missions :
        /\ (pc[m] \in TaskPcs \cup {"replan"} /\ last_failure[m] # "none")
               => LastErrorOf(tasks[m], current_task[m]) = last_failure[m]
        /\ pc[m] = "replan" => last_failure[m] # "none"

C16_Witness ==
    \E m \in Missions :
        /\ pc[m] = "replan"
        /\ last_failure[m] = "error_text"
        /\ LastErrorOf(tasks[m], current_task[m]) = "error_text"
        /\ retry_count[m] = MAX_RETRIES_PER_TASK + 1


\* ------------------------------------------------------------------ C17
\* The fixed classification rules: FAILURE for null, for a string whose
\* trimmed lowercase form starts with "error" or contains "failed" or
\* contains "not found", and for a mapping whose lowercased status is
\* "failure" or "error"; SUCCESS for every other result.
RulesSayFailure(result) ==
    LET r == Shape(result)
    IN \/ r.type = "NoneType"
       \/ /\ r.type = "str"
          /\ \/ StartsWith(StripLower(r.words), "error")
             \/ Contains(StripLower(r.words), "failed")
             \/ Contains(StripLower(r.words), "not found")
       \/ /\ r.type = "dict"
          /\ Lower(r.status) \in {"failure", "error"}

\* C17: for every result an action function returned, the status run_tool
\* reports and the flag of _is_result_an_error both follow the fixed rules.
C17_ClassificationFollowsRules ==
    (tr_pc = "completed" /\ tr_result # "exception_text")
        => /\ (tr_status = "FAILURE") = RulesSayFailure(tr_result)
           /\ is_result_an_error(tr_result) = RulesSayFailure(tr_result)


\* ------------------------------------------------------------------ C18
\* C18: whenever a tool run of a mission has returned, the Conductor has
\* marked the current task done if and only if the tool_call_completed of
\* that run carried the status SUCCESS.
C18_DoneIffRunnerSuccess ==
    \A m \in Missions :
        "tool_call_completed" \in Emitted(m)
            => (IsDone(tasks[m], current_task[m]) <=> "SUCCESS" \in Emitted(m))

\* ------------------------------------------------------------------ C19
\* C19: a tool run whose action function raises returns to the Conductor
\* with tool_call_completed carrying FAILURE, and the Conductor counts the
\* attempt as failed: retry_count grows, the task stays pending and the
\* retry loop goes on.
C19_RaisingToolFailsAttempt ==
    [][\A m \in Missions :
          (pc[m] = "tool" /\ ToolReturns(m, "raises"))
              => /\ "FAILURE" \in {out'[m][i] : i \in 1..Len(out'[m])}
                 /\ retry_count'[m] = retry_count[m] + 1
                 /\ TaskPending(tasks'[m], current_task[m])
                 /\ pc'[m] = "retry"]_vars

\* ------------------------------------------------------------------ C20
NumberOf(event, events) == Cardinality({i \in 1..Len(events) : events[i] = event})

\* C20: a completed tool call has emitted refresh_file_tree once when its
\* status is SUCCESS and its tool changes the workspace, and not at all
\* when the tool only reads or the status is FAILURE.
C20_RefreshOnlyForMutatingSuccess ==
    tr_pc = "completed"
        => NumberOf("refresh_file_tree", out[Svc])
               = IF tr_status = "SUCCESS" /\ tr_tool \in MutatingTools THEN 1 ELSE 0


\* ------------------------------------------------------------------ C21
\* The Tool Runner with an action function that returns or raises in the
\* end: run_tool awaits nothing else after tool_call_initiated but the sleep.
SpecToolFair ==
    SpecTool /\ WF_vars(\E outcome \in ActionOutcomes : ToolCallCompleted(outcome))

\* C21: tool_call_completed is emitted only by the invocation that emitted
\* tool_call_initiated before it and with that invocation's widget id; the
\* step that ends an invocation emits it exactly once, whether the action
\* returned a success, a failure or raised; no other invocation is started
\* in between; and every tool_call_initiated is followed by that step.
C21_InitiatedThenOneCompleted ==
    /\ [][/\ "tool_call_completed" \in {out'[Svc][i] : i \in 1..Len(out'[Svc])}
                => tr_pc = "initiated" /\ tr_pc' = "completed"
          /\ tr_pc = "initiated"
                => /\ tr_pc' = "completed"
                   /\ tr_widget' = tr_widget
                   /\ NumberOf("tool_call_completed", out'[Svc]) = 1
                   /\ NumberOf("tool_call_initiated", out'[Svc]) = 0]_vars
    /\ \A widget_id \in WidgetIds :
           (tr_pc = "initiated" /\ tr_widget = widget_id)
               ~> (tr_pc = "completed" /\ tr_widget = widget_id)

C21_Witness ==
    /\ tr_pc = "completed"
    /\ tr_result = "exception_text"
    /\ tr_status = "FAILURE"
    /\ tr_widget = 2
    /\ out[Svc] = <<"tool_call_completed", "FAILURE">>


\* ------------------------------------------------------------ LLM gateway

\* Longest response stream, in lines, that _unified_llm_streamer reads.
MaxLines == 3

\* The lines of a response stream: the JSON records by their type,
\* "final_response" for the record that carries final_response.reply,
\* "not_json" for a line json.loads rejects and "blank" for an empty line.
StreamLines == {"chunk", "phase", "system_log", "final_response", "not_json", "blank"}

\* What the call comes to before it reads the stream.
CallOutcomes ==
    {"not_configured", "missing_config", "status_error", "connect_error", "status_200"}

\* The strings the call returns, as the words a prefix check looks at.
ReturnWords(value) ==
    CASE value = "error_not_configured" -> <<"Error:", "LLM_SERVER_URL", "is not configured.">>
      [] value = "error_missing_config" -> <<"Error:", "Missing config">>
      [] value = "error_status" -> <<"Error:", "LLM service failed with status">>
      [] value = "unexpected_error" -> <<"An", "unexpected", "error", "occurred during streaming:">>
      [] value = "reply" -> <<"reply">>
      [] value = "" -> <<>>

\* response_str.startswith("Error:") of the callers.
HasErrorPrefix(value) == StartsWith(ReturnWords(value), "Error:")

\* What reading one line sends to the user's clients (lines 94-100): a chunk
\* is wrapped when stream_to_user_socket_as is given, every other record is
\* broadcast as it is.
ForwardedFor(line, as) ==
    IF line \in {"not_json", "blank"} THEN <<>>
    ELSE IF line = "chunk" /\ as THEN <<"stream_chunk">>
    ELSE <<line>>

GatewayFrame ==
    UNCHANGED <<tasks, next_task_id, initial_user_goal, disk, lastOp, issued,
                reused, diskFresh, track, toolVars, condVars, busVars, promptVars, selVars, srvVars>>

\* The call of _unified_llm_streamer up to the response status (lines 60-85),
\* with the except branch for a request that fails.
CallGateway(as, outcome) ==
    /\ gw_pc \in {"idle", "returned"}
    /\ gw_as' = as
    /\ gw_arrived' = <<>>
    /\ gw_reply' = ""
    /\ IF outcome = "status_200"
       THEN /\ gw_pc' = "streaming"
            /\ gw_sent' = <<>>
            /\ gw_return' = "none"
       ELSE /\ gw_pc' = "returned"
            /\ gw_sent' = IF outcome \in {"status_error", "connect_error"}
                          THEN <<"system_log">> ELSE <<>>
            /\ gw_return' = CASE outcome = "not_configured" -> "error_not_configured"
                              [] outcome = "missing_config" -> "error_missing_config"
                              [] outcome = "status_error" -> "error_status"
                              [] outcome = "connect_error" -> "unexpected_error"
    /\ out' = Emit(Svc, gw_sent')
    /\ GatewayFrame

\* One turn of the read loop (lines 87-107).
ReadLine(line) ==
    /\ gw_pc = "streaming"
    /\ Len(gw_arrived) < MaxLines
    /\ gw_arrived' = Append(gw_arrived, line)
    /\ gw_sent' = gw_sent \o ForwardedFor(line, gw_as)
    /\ gw_reply' = IF line = "final_response" THEN "reply" ELSE gw_reply
    /\ out' = Emit(Svc, ForwardedFor(line, gw_as))
    /\ UNCHANGED <<gw_pc, gw_as, gw_return>>
    /\ GatewayFrame

\* response.content.at_eof(): "return final_reply".
StreamEnds ==
    /\ gw_pc = "streaming"
    /\ gw_pc' = "returned"
    /\ gw_return' = gw_reply
    /\ out' = NoEvents
    /\ UNCHANGED <<gw_as, gw_arrived, gw_sent, gw_reply>>
    /\ GatewayFrame

\* readline raises (the connection breaks, the timeout of 300 s passes): the
\* except branch of lines 108-112.
StreamBreaks ==
    /\ gw_pc = "streaming"
    /\ gw_pc' = "returned"
    /\ gw_sent' = Append(gw_sent, "system_log")
    /\ gw_return' = "unexpected_error"
    /\ out' = Emit(Svc, <<"system_log">>)
    /\ UNCHANGED <<gw_as, gw_arrived, gw_reply>>
    /\ GatewayFrame

GatewayNext ==
    \/ \E as \in BOOLEAN, outcome \in CallOutcomes : CallGateway(as, outcome)
    \/ \E line \in StreamLines : ReadLine(line)
    \/ StreamEnds
    \/ StreamBreaks

\* The gateway driven with calls and response streams.
SpecGateway == LogInit("ops") /\ [][GatewayNext]_vars

\* ------------------------------------------------------------------ C22
\* C22: a call that returned without having captured a reply returned a
\* string that starts with "Error:".
C22_FailuresCarryErrorPrefix ==
    (gw_pc = "returned" /\ ~Contains(gw_arrived, "final_response"))
        => HasErrorPrefix(gw_return)

\* ------------------------------------------------------------------ C23
IsForwardable(line) == line \in {"chunk", "phase", "system_log"}

\* C23: while the stream is read, what has been sent to the user's clients
\* is the chunk, phase and system_log records read so far, in their order
\* (a chunk as the event asked for); the final_response record is not sent.
C23_ForwardsAllButFinal ==
    gw_pc = "streaming"
        => /\ Len(gw_sent) = Len(SelectSeq(gw_arrived, IsForwardable))
           /\ \A i \in 1..Len(gw_sent) :
                  gw_sent[i] = IF SelectSeq(gw_arrived, IsForwardable)[i] = "chunk" /\ gw_as
                               THEN "stream_chunk"
                               ELSE SelectSeq(gw_arrived, IsForwardable)[i]


\* ------------------------------------------------------------------ C24
\* C24: when the Replanner answers with an empty plan, the mission fails:
\* the step reports the error as a system_log, emits mission_failure and
\* leaves the execution loop, so the task is not attempted again.
C24_EmptyReplanFailsMission ==
    [][\A m \in Missions :
          (pc[m] = "replan" /\ ReplanFails(m, "empty_plan"))
              => /\ "system_log:replan_error" \in {out'[m][i] : i \in 1..Len(out'[m])}
                 /\ "mission_failure" \in {out'[m][i] : i \in 1..Len(out'[m])}
                 /\ pc'[m] = "finally"]_vars

\* ------------------------------------------------------------------ C25
\* C25: a replan that does not complete (no usable answer of the Replanner,
\* an empty plan, or a plan with an empty description) leaves the Mission
\* Log of the mission, in memory and in the file, as it was.
C25_FailedReplanLeavesLog ==
    [][\A m \in Missions :
          (/\ pc[m] = "replan"
           /\ \/ \E outcome \in ReplanOutcomes : ReplanFails(m, outcome)
              \/ \E steps \in ReplanPlans :
                     /\ replace_tasks_from_id(LogOf(m), current_task[m], steps).raised
                     /\ ReplanWithPlan(m, steps))
              => /\ tasks'[m] = tasks[m]
                 /\ next_task_id'[m] = next_task_id[m]
                 /\ disk' = disk]_vars


\* ------------------------------------------------------------------ C26
\* C26: the background task of a dispatch that loads a log without tasks
\* does not set the mission running and does not announce an execution, and
\* a mission whose log never held a task emits no mission_success.
C26_EmptyPlanIsNotExecuted ==
    [][\A m \in Missions :
          /\ (/\ pc[m] = "queued"
              /\ load_log(disk, TRUE).tasks = <<>>
              /\ RunDispatchTask(m))
                 => /\ registry'.running = registry.running
                    /\ "agent_status:thinking" \notin {out'[m][i] : i \in 1..Len(out'[m])}
                    /\ pc'[m] \notin {"top", "summary"} \cup TaskPcs
          /\ (/\ pc[m] = "summary"
              /\ LogOf(m) = EmptyLog
              /\ \E outcome \in SummaryOutcomes : HandleMissionCompletion(m, outcome))
                 => "mission_success" \notin {out'[m][i] : i \in 1..Len(out'[m])}]_vars


\* ---------------------------------------------------------------- Planner

DEPS_DESC == "Add the following dependencies to requirements.txt"

\* What run_aura_planner_workflow gets from the gateway: the string returned
\* and, for a reply, whether _parse_json_response finds a JSON object in it,
\* what its final_plan is ("absent", "empty_list", "str" for a value that is
\* no list, "list") and whether it names dependencies.
PlannerReplies ==
    {[returned |-> v, parsed |-> FALSE, plan_type |-> "absent", final_plan |-> <<>>,
      dependencies |-> FALSE] :
        v \in {"", "error_status", "error_missing_config", "unexpected_error", "reply"}}
    \cup {[returned |-> "reply", parsed |-> TRUE, plan_type |-> t, final_plan |-> <<>>,
           dependencies |-> dp] : t \in {"absent", "empty_list", "str"}, dp \in BOOLEAN}
    \cup {[returned |-> "reply", parsed |-> TRUE, plan_type |-> "list", final_plan |-> steps,
           dependencies |-> dp] : steps \in StepLists \ {<<>>}, dp \in BOOLEAN}

\* A validation without "not final_plan": an empty list passes.
PlanIsValidOrEmpty(reply) ==
    /\ reply.returned # "" /\ ~HasErrorPrefix(reply.returned)
    /\ reply.parsed
    /\ reply.plan_type \in {"list", "empty_list"}

\* Lines 147-160: the reply is not empty and carries no error prefix, a JSON
\* object is found in it, and its final_plan is a list that is not empty.
PlanIsValid(reply) ==
    /\ reply.returned # "" /\ ~HasErrorPrefix(reply.returned)
    /\ reply.parsed
    /\ reply.plan_type = "list"

\* Lines 162-164: the dependencies step goes first.
FinalPlan(reply) ==
    IF reply.dependencies THEN <<DEPS_DESC>> \o reply.final_plan ELSE reply.final_plan

\* run_aura_planner_workflow from the return of the gateway on.
RunAuraPlannerWorkflow(reply, written) ==
    /\ Len(FinalPlan(reply)) + 1 <= MaxId
    /\ IF PlanIsValid(reply)
       THEN LET r == set_initial_plan(LogOf(Svc), FinalPlan(reply), "g")
            IN  /\ tasks' = [tasks EXCEPT ![Svc] = r.log.tasks]
                /\ next_task_id' = [next_task_id EXCEPT ![Svc] = r.log.next_id]
                /\ initial_user_goal' = [initial_user_goal EXCEPT ![Svc] = r.log.goal]
                /\ disk' = IF r.save THEN save_and_notify(r.log, written).file ELSE disk
                /\ out' = Emit(Svc, IF r.raised THEN <<"system_log">>
                                    ELSE save_and_notify(r.log, written).events
                                             \o <<"aura_response">>)
                /\ TrackIds(LogOf(Svc), r, TRUE, FALSE)
       ELSE /\ out' = Emit(Svc, <<"system_log">>)
            /\ UNCHANGED <<tasks, next_task_id, initial_user_goal, disk, issued,
                           reused, diskFresh, track>>
    /\ TrackOp("run_aura_planner_workflow")

PlannerNext ==
    \/ LogNext
    \/ \E reply \in PlannerReplies, w \in WriteOutcomes : RunAuraPlannerWorkflow(reply, w)

\* The Mission Log service with the Planner's workflow.
SpecPlanner == LogInit("ops") /\ [][PlannerNext]_vars

\* ------------------------------------------------------------------ C27
\* The replies that fail the validation: a gateway error, an empty reply, a
\* reply without a JSON object, a final_plan that is empty or not a list.
FailsValidation(reply) ==
    \/ reply.returned \in {"", "error_status", "error_missing_config", "unexpected_error"}
    \/ ~reply.parsed
    \/ reply.plan_type \in {"absent", "empty_list", "str"}

C28_TerminalEventsAreLast ==
    [][\A m \in Missions :
          (pc[m] = "finally" /\ MissionFinished(m))
              => /\ "mission_failure" \in Emitted(m) => out'[m] = <<>>
                 /\ "system_log:halted" \in Emitted(m)
                        => out'[m] = <<"agent_status:idle">>]_vars


\* ------------------------------------------------------------------ C29
\* C29: a step of a mission emits mission_success only on completion, when
\* no task of its log is pending, as the event that directly follows the
\* one aura_response of the summary; and a mission past that step does not
\* come back to it, so it emits mission_success at most once.
C29_SuccessOnceAfterSummary ==
    [][\A m \in Missions :
          /\ "mission_success" \in {out'[m][i] : i \in 1..Len(out'[m])}
                => /\ pc[m] = "summary" /\ pc'[m] = "finally"
                   /\ \A i \in 1..Len(tasks[m]) : tasks[m][i].done
                   /\ out'[m] = <<"aura_response:summary", "mission_success">>
          /\ pc[m] \in {"finally", "done"} => pc'[m] \in {"finally", "done"}]_vars

C29_Witness ==
    \E m \in Missions :
        /\ pc[m] = "finally"
        /\ out[m] = <<"aura_response:summary", "mission_success">>
        /\ tasks[m] # <<>>
        /\ \A i \in 1..Len(tasks[m]) : tasks[m][i].done


\* -------------------------------------------------------- Notification Bus

\* Events a producer emits, and acknowledgements a client is sent.
MaxEvents == 2

MaxAcks == 1

\* The prompt requests that are answered with a chat or wait as a planner job.
MaxPrompts == 2

\* The longest chunk of a provider, in words of the streamed text.
MaxChunkLen == 6

\* The event number n of producer p; <<0, 0>> is the acknowledgement that
\* websocket_endpoint sends to the client that wrote to it.
Event(p, n) == <<p, n>>

Ack == <<0, 0>>

\* The snapshots a broadcast can take: the connected clients of the user,
\* in the order the registry holds them.
Snapshots(user) ==
    LET sinks == {c \in bus_clients : ClientUser(c) = user}
    IN {q \in SeqsUpTo(sinks, Cardinality(sinks)) :
            Len(q) = Cardinality(sinks) /\ {q[i] : i \in 1..Len(q)} = sinks}

\* A websocket that hands the newest event to the client first.
DeliverFirst(received, event) == <<event>> \o received

\* The websocket of a client: what is written to it arrives in that order.
Deliver(received, event) == Append(received, event)

BusFrame == UNCHANGED <<logVars, toolVars, condVars, llmVars, promptVars, selVars, srvVars>>

\* websocket_endpoint: websocket_manager.connect.
Connect(c) ==
    /\ c \notin bus_clients
    /\ bus_clients' = bus_clients \cup {c}
    /\ UNCHANGED <<bus_received, bus_emitted, bus_pending>>
    /\ BusFrame

\* websocket_endpoint: WebSocketDisconnect, websocket_manager.disconnect.
Disconnect(c) ==
    /\ c \in bus_clients
    /\ bus_clients' = bus_clients \ {c}
    /\ UNCHANGED <<bus_received, bus_emitted, bus_pending>>
    /\ BusFrame

\* websocket_endpoint: a text of the client is acknowledged with send_to_client.
Acknowledge(c) ==
    /\ c \in bus_clients
    /\ Cardinality({i \in 1..Len(bus_received[c]) : bus_received[c][i] = Ack}) < MaxAcks
    /\ bus_received' = [bus_received EXCEPT ![c] = Deliver(@, Ack)]
    /\ UNCHANGED <<bus_clients, bus_emitted, bus_pending>>
    /\ BusFrame

\* "await websocket_manager.broadcast_to_user(event, user_id)" begins: the
\* producer's earlier broadcast has returned, the sinks are snapshot.
BroadcastToUser(p, snapshot) ==
    /\ bus_pending[p] = <<>>
    /\ bus_emitted[p] < MaxEvents
    /\ snapshot \in Snapshots(ProducerUser(p))
    /\ bus_emitted' = [bus_emitted EXCEPT ![p] = @ + 1]
    /\ bus_pending' = [bus_pending EXCEPT ![p] = snapshot]
    /\ UNCHANGED <<bus_clients, bus_received>>
    /\ BusFrame

\* A broadcast that gives up at the first sink it cannot write to.
RestAfterWriteOrNone(pending, delivered) ==
    IF delivered THEN Tail(pending) ELSE <<>>

\* The sinks a broadcast goes on with after a write: the error of a sink is
\* logged and ignored.
RestAfterWrite(pending, delivered) == Tail(pending)

\* The broadcast writes to the next sink of its snapshot; a sink that has
\* gone or does not accept the event in time is skipped.
WriteToSink(p, accepted) ==
    /\ bus_pending[p] # <<>>
    /\ LET c == Head(bus_pending[p])
       IN /\ bus_received' =
                 IF accepted /\ c \in bus_clients
                 THEN [bus_received EXCEPT ![c] = Deliver(@, Event(p, bus_emitted[p]))]
                 ELSE bus_received
          /\ bus_pending' = [bus_pending EXCEPT ![p] =
                                 RestAfterWrite(@, accepted /\ c \in bus_clients)]
    /\ UNCHANGED <<bus_clients, bus_emitted>>
    /\ BusFrame

BusNext ==
    \/ \E c \in Clients : Connect(c)
    \/ \E c \in Clients : Disconnect(c)
    \/ \E c \in Clients : Acknowledge(c)
    \/ \E p \in Producers : \E snapshot \in Snapshots(ProducerUser(p)) :
           BroadcastToUser(p, snapshot)
    \/ \E p \in Producers, accepted \in BOOLEAN : WriteToSink(p, accepted)

\* The Notification Bus under producers and clients of two users.
SpecBus == LogInit("ops") /\ [][BusNext]_vars

\* ------------------------------------------------------------------ C30
\* C30: every client has received the events of a producer in the order the
\* producer emitted them, and only events of its own user's producers.
C30_DeliveredInEmissionOrder ==
    \A c \in Clients :
        /\ \A i, j \in 1..Len(bus_received[c]) :
               (/\ i < j
                /\ bus_received[c][i] # Ack
                /\ bus_received[c][i][1] = bus_received[c][j][1])
                   => bus_received[c][i][2] < bus_received[c][j][2]
        /\ \A i \in 1..Len(bus_received[c]) :
               bus_received[c][i] # Ack
                   => ProducerUser(bus_received[c][i][1]) = ClientUser(c)

C30_Witness ==
    /\ bus_received[1] = <<Event(1, 1), Ack, Event(1, 2)>>
    /\ bus_received[2] = <<Event(1, 2)>>
    /\ bus_received[3] = <<Event(2, 1)>>


Intents == {"PLAN", "CHAT", "other"}

\* A routing that answers an unknown intent with nothing.
RouteKnownOnly(intent) ==
    IF intent = "PLAN" THEN "plan" ELSE IF intent = "CHAT" THEN "chat" ELSE "none"

\* Lines 165-197: PLAN goes to the background planner, CHAT and every other
\* value to the companion chat.
Route(intent) == IF intent = "PLAN" THEN "plan" ELSE "chat"

\* run_companion_chat: the events of a reply, and of a gateway error, which
\* handle_error posts.
CompanionChatEvents(chat_fails) == IF chat_fails THEN <<"system_log">> ELSE <<>>

\* POST /{project_name}/prompt. found = FALSE is the unknown project (404).
HandleAgentPrompt(found, intent, readable, written, chat_fails) ==
    /\ pr_queue + pr_chats < MaxPrompts
    /\ lastOp' = IF track = "ops" THEN "handle_agent_prompt" ELSE NoOp
    /\ IF ~found
       THEN /\ pr_status' = 404
            /\ out' = Emit(Svc, <<>>)
            /\ UNCHANGED <<tasks, next_task_id, initial_user_goal, disk, pr_queue, pr_chats>>
       ELSE LET L == load_log(disk, readable)
            IN /\ tasks' = [tasks EXCEPT ![Svc] = L.tasks]
               /\ next_task_id' = [next_task_id EXCEPT ![Svc] = L.next_id]
               /\ initial_user_goal' = [initial_user_goal EXCEPT ![Svc] = L.goal]
               /\ disk' = save_and_notify(L, written).file
               /\ out' = Emit(Svc, save_and_notify(L, written).events
                                       \o IF Route(intent) = "chat"
                                          THEN CompanionChatEvents(chat_fails) ELSE <<>>)
               /\ pr_queue' = IF Route(intent) = "plan" THEN pr_queue + 1 ELSE pr_queue
               /\ pr_chats' = IF Route(intent) = "chat" THEN pr_chats + 1 ELSE pr_chats
               /\ pr_status' = IF Route(intent) = "plan" THEN 202 ELSE 200
    /\ UNCHANGED <<issued, reused, diskFresh, track, toolVars, condVars, llmVars, busVars,
                   selVars, srvVars>>

\* run_planner_task, the background job of a PLAN prompt: the log is loaded,
\* the planner workflow runs on it, agent_status idle ends the job.
RunPlannerTask(readable, reply, written) ==
    /\ pr_queue > 0
    /\ Len(FinalPlan(reply)) + 1 <= MaxId
    /\ pr_queue' = pr_queue - 1
    /\ lastOp' = IF track = "ops" THEN "run_planner_task" ELSE NoOp
    /\ LET L == load_log(disk, readable)
           loaded == save_and_notify(L, written)
       IN IF PlanIsValid(reply)
          THEN LET r == set_initial_plan(L, FinalPlan(reply), "g")
               IN /\ tasks' = [tasks EXCEPT ![Svc] = r.log.tasks]
                  /\ next_task_id' = [next_task_id EXCEPT ![Svc] = r.log.next_id]
                  /\ initial_user_goal' = [initial_user_goal EXCEPT ![Svc] = r.log.goal]
                  /\ disk' = IF r.save THEN save_and_notify(r.log, written).file
                             ELSE loaded.file
                  /\ out' = Emit(Svc, loaded.events
                                      \o (IF r.raised THEN <<"system_log">>
                                          ELSE save_and_notify(r.log, written).events
                                                   \o <<"aura_response">>)
                                      \o <<"agent_status:idle">>)
          ELSE /\ tasks' = [tasks EXCEPT ![Svc] = L.tasks]
               /\ next_task_id' = [next_task_id EXCEPT ![Svc] = L.next_id]
               /\ initial_user_goal' = [initial_user_goal EXCEPT ![Svc] = L.goal]
               /\ disk' = loaded.file
               /\ out' = Emit(Svc, loaded.events \o <<"system_log", "agent_status:idle">>)
    /\ UNCHANGED <<pr_chats, pr_status, issued, reused, diskFresh, track, toolVars,
                   condVars, llmVars, busVars, selVars, srvVars>>

PromptNext ==
    \/ \E found \in BOOLEAN, intent \in Intents, rd \in BOOLEAN, w \in WriteOutcomes,
          cf \in BOOLEAN : HandleAgentPrompt(found, intent, rd, w, cf)
    \/ \E rd \in BOOLEAN, reply \in PlannerReplies, w \in WriteOutcomes :
          RunPlannerTask(rd, reply, w)

\* The prompt endpoint with its background planner jobs.
SpecPrompt == LogInit("ops") /\ [][PromptNext]_vars

\* ------------------------------------------------------------------ C32
\* C32: a prompt request for a known project enqueues one planner job if its
\* intent is PLAN and none otherwise. For CHAT and every other intent value
\* run_companion_chat is called once and the log is only loaded: the log in
\* memory and in the file holds the tasks and the goal the file held (an
\* empty log if the file was missing or could not be read). A PLAN request
\* calls no companion chat.
C32_PlannerJobIffPlan ==
    [][\A intent \in Intents, rd \in BOOLEAN, w \in WriteOutcomes, cf \in BOOLEAN :
          (lastOp' = "handle_agent_prompt" /\ HandleAgentPrompt(TRUE, intent, rd, w, cf))
              => /\ (pr_queue' = pr_queue + 1) <=> (intent = "PLAN")
                 /\ (pr_queue' = pr_queue) <=> (intent # "PLAN")
                 /\ intent = "PLAN" => pr_chats' = pr_chats
                 /\ intent # "PLAN"
                        => /\ pr_chats' = pr_chats + 1
                           /\ tasks'[Svc] = load_log(disk, rd).tasks
                           /\ initial_user_goal'[Svc] = load_log(disk, rd).goal
                           /\ (disk.exists /\ rd /\ w)
                                  => /\ disk'.tasks = disk.tasks
                                     /\ disk'.initial_goal = disk.initial_goal]_vars

\* A prompt was answered with a chat while the log holds a plan and a
\* planner job waits: the plan is still the one of the file.
C32_Witness ==
    /\ lastOp = "handle_agent_prompt"
    /\ pr_status = 200
    /\ pr_chats = 1
    /\ pr_queue = 1
    /\ tasks[Svc] # <<>>
    /\ disk.tasks = tasks[Svc]


\* ------------------------------------------------------------------ C33
\* The done tasks of a task sequence come before all its pending tasks.
DoneIsPrefix(ts) ==
    \A i \in 1..Len(ts), j \in 1..Len(ts) : (i < j /\ ts[j].done) => ts[i].done

\* C33: in every state of a mission that started from a fresh plan the done
\* tasks form a prefix of the task sequence, in each mission's log and in
\* the file, also after a re-plan, and the task of a tool attempt is the
\* first pending task of the mission's log.
C33_DoneTasksFormPrefix ==
    /\ DoneIsPrefix(disk.tasks)
    /\ \A m \in Missions :
           /\ DoneIsPrefix(tasks[m])
           /\ pc[m] \in TaskPcs
                  => /\ current_task[m] # 0
                     /\ \A i \in 1..Len(tasks[m]) :
                            ~tasks[m][i].done
                                => \E j \in 1..i : /\ tasks[m][j].id = current_task[m]
                                                   /\ \A k \in 1..(j - 1) : tasks[m][k].done

\* After a re-plan the first task is done and the task of the new plan is
\* pending behind it.
C33_Witness ==
    \E m \in Missions :
        /\ Len(tasks[m]) = 2
        /\ tasks[m][1].done
        /\ ~tasks[m][2].done
        /\ tasks[m][2].description = "b"
        /\ pc[m] \in TaskPcs


\* ------------------------------------------------------------------ C34
\* C34: when the only mission is between attempts, between tasks or stopped,
\* the file holds the log of the mission's memory, each task's last_error
\* included.
C34_LastErrorIsPersisted ==
    \A m \in Missions :
        (/\ pc[m] \in {"top", "retry", "replan", "finally"}
         /\ \A n \in Missions \ {m} : pc[n] = "none"
         /\ disk.exists)
            => disk.tasks = tasks[m]


\* =====================================================================
\* The tool selection (conductor_service.py, _get_tool_call_for_task)
\* =====================================================================

\* What _unified_llm_streamer can return to the selection.
GatewayErrors ==
    {"error_not_configured", "error_missing_config", "error_status", "unexpected_error"}

SelectionReplies ==
    {SelectionReply(v, FALSE, FALSE, FALSE, "none", "absent", "absent") :
        v \in GatewayErrors \cup {"", "reply"}}
    \cup {SelectionReply("reply", TRUE, tn, FALSE, "write_file", "absent", "absent") :
            tn \in BOOLEAN}
    \cup {SelectionReply("reply", TRUE, tn, TRUE, t, c, td) :
            tn \in BOOLEAN, t \in Tools,
            c \in {"absent", "", "code"}, td \in {"absent", "", "desc"}}

\* What _unified_llm_streamer can return to the code generation: a gateway
\* error, nothing (a stream without final_response), code, code in a fenced
\* block, white space.
CodeReturns == GatewayErrors \cup {"", "code", "fenced_code", "blank"}

\* The returned string as the words that strip, the code block pattern and
\* the prefix check look at.
CodeWords(value) ==
    CASE value = "code" -> <<"code">>
      [] value = "fenced_code" -> <<"fence", "code", " ", "fence">>
      [] value = "blank" -> <<" ", " ">>
      [] OTHER -> ReturnWords(value)

\* code_block_regex.search(full_code): the text between the first two fences.
CodeBlock(words) ==
    LET fences == {i \in 1..Len(words) : words[i] = "fence"}
    IN  IF Cardinality(fences) < 2 THEN [match |-> FALSE, group |-> <<>>]
        ELSE LET a == CHOOSE i \in fences : \A j \in fences : i <= j
                 b == CHOOSE i \in fences \ {a} : \A j \in fences \ {a} : i <= j
             IN [match |-> TRUE, group |-> SubSeq(words, a + 1, b - 1)]

\* _generate_code_for_task from the return of the gateway on (lines 220-224).
generate_code_for_task(value) ==
    IF CodeBlock(CodeWords(value)).match
    THEN Strip(CodeBlock(CodeWords(value)).group)
    ELSE Strip(CodeWords(value))

\* Line 105: generated_code.startswith("Error:").
GenerationFailed(generated) == StartsWith(generated, "Error:")

\* Lines 81-93: the reply is turned down (None is returned).
SelectionInvalid(reply) ==
    \/ HasErrorPrefix(reply.returned)
    \/ ~reply.parsed
    \/ ~reply.has_tool_name
    \/ ~reply.has_arguments

\* Lines 95-97: write_file without content and with a task_description.
NeedsGeneratedCode(reply) ==
    /\ reply.tool_name = "write_file"
    /\ reply.content \in {"absent", ""}
    /\ reply.task_description = "desc"

SelFrame ==
    UNCHANGED <<logVars, toolVars, condVars, llmVars, busVars, promptVars, srvVars>>

\* _get_tool_call_for_task from the return of the selection's gateway call
\* up to its return or the call of _generate_code_for_task.
SelectionReturns(reply) ==
    /\ sel_pc \in {"idle", "done"}
    /\ sel_retry_count <= MAX_RETRIES_PER_TASK
    /\ sel_call' = reply
    /\ sel_generated' = "none"
    /\ sel_retry_count' = IF SelectionInvalid(reply) THEN sel_retry_count + 1
                          ELSE sel_retry_count
    /\ IF SelectionInvalid(reply)
       THEN /\ sel_pc' = "done"
            /\ sel_result' = NoToolCall
       ELSE IF NeedsGeneratedCode(reply)
       THEN /\ sel_pc' = "generating"
            /\ sel_result' = NoToolCall
       ELSE /\ sel_pc' = "done"
            /\ sel_result' = ToolCall(TRUE, reply.tool_name, reply.content # "absent",
                                      IF reply.content = "code" THEN <<"code">> ELSE <<>>,
                                      reply.task_description # "absent")
    /\ SelFrame

\* Lines 98-109: the generated code is checked and becomes the content.
CodeGenerationReturns(value) ==
    /\ sel_pc = "generating"
    /\ sel_pc' = "done"
    /\ sel_result' = IF GenerationFailed(generate_code_for_task(value))
                     THEN NoToolCall
                     ELSE ToolCall(TRUE, sel_call.tool_name, TRUE,
                                   generate_code_for_task(value), FALSE)
    /\ sel_generated' = value
    /\ sel_retry_count' = IF GenerationFailed(generate_code_for_task(value))
                          THEN sel_retry_count + 1 ELSE sel_retry_count
    /\ UNCHANGED sel_call
    /\ SelFrame

\* execute_mission, lines 144-150: the attempts of the next task begin with
\* retry_count = 0.
TaskBegins ==
    /\ sel_pc = "done"
    /\ sel_pc' = "idle"
    /\ sel_retry_count' = 0
    /\ UNCHANGED <<sel_call, sel_result, sel_generated>>
    /\ SelFrame

SelectionNext ==
    \/ \E reply \in SelectionReplies : SelectionReturns(reply)
    \/ \E value \in CodeReturns : CodeGenerationReturns(value)
    \/ TaskBegins

\* The tool selection of the Conductor, attempt after attempt.
SpecSelection == Constructed("ops") /\ disk = NoFile /\ [][SelectionNext]_vars

\* ------------------------------------------------------------------ C35
\* C35: a write_file call that the selection returns for a reply with a
\* task_description and without content was not returned after a gateway
\* error of the code generation; it carries generated content that is not
\* empty and is no error message of the gateway, and no task_description.
C35_GeneratedContentIsCode ==
    (/\ sel_pc = "done"
     /\ sel_result.returned
     /\ NeedsGeneratedCode(sel_call))
        => /\ sel_generated \notin GatewayErrors
           /\ sel_result.tool_name = "write_file"
           /\ sel_result.has_content
           /\ sel_result.content # <<>>
           /\ \A v \in GatewayErrors : sel_result.content # ReturnWords(v)
           /\ ~sel_result.has_task_description


\* ------------------------------------------------------------------ C36
\* C36: an attempt whose tool selection yields no tool call dispatches
\* nothing (no tool_call_initiated is emitted), sets the task's last_error
\* and counts against the retry budget; after the second failed attempt of
\* a running mission the Replanner is next, after the first one the next
\* selection.
C36_SelectionFailureCountsAsAttempt ==
    [][\A m \in Missions :
          (pc[m] = "select" /\ SelectToolCall(m, "no_tool_call"))
              => /\ "tool_call_initiated" \notin Emitted(m)'
                 /\ pc'[m] # "tool"
                 /\ retry_count'[m] = retry_count[m] + 1
                 /\ LastErrorOf(tasks'[m], current_task[m]) = "no_tool_call"
                 /\ is_mission_running(registry)
                        => pc'[m] = IF retry_count[m] = MAX_RETRIES_PER_TASK
                                    THEN "replan" ELSE "select"]_vars

\* The second attempt of a task failed at the selection and the Replanner is
\* next.
C36_Witness ==
    \E m \in Missions :
        /\ pc[m] = "replan"
        /\ retry_count[m] = MAX_RETRIES_PER_TASK + 1
        /\ last_failure[m] = "no_tool_call"
        /\ LastErrorOf(tasks[m], current_task[m]) = "no_tool_call"
        /\ "tool_call_initiated" \notin Emitted(m)


\* =====================================================================
\* The LLM service (llm_server/main.py, stream_llm_response)
\* =====================================================================

\* The keys whose phase records the generator yields, in the order of its
\* checks.
PhaseKeys == <<"draft_blueprint", "critique", "final_blueprint">>

\* The texts a provider streams, as words: a brace, a key with its colon,
\* other text "x", white space " ". A plan, a plan whose critique is only
\* nested in the draft, a text without JSON, white space, nothing.
Documents ==
    {<<"{", "draft_blueprint", "critique", "final_blueprint", "}">>,
     <<"{", "draft_blueprint", "{", "critique", "}", "}">>,
     <<"x", "x">>,
     <<" ">>,
     <<>>}

\* chunk.count(word)
CountOf(chunk, word) == Cardinality({i \in 1..Len(chunk) : chunk[i] = word})

Record(type, content) == [type |-> type, content |-> content]

\* Lines 67-72: in_json_block and brace_counter after the chunk was added.
BraceCounterAfter(chunk) ==
    IF ls_in_json_block \/ Contains(ls_content \o chunk, "{")
    THEN ls_brace_counter + CountOf(chunk, "{") - CountOf(chunk, "}")
    ELSE ls_brace_counter

\* Lines 75-89: the keys whose phase record the chunk brings.
PhasesFor(chunk) ==
    LET Due(key) == /\ Contains(ls_content \o chunk, key)
                    /\ key \notin ls_phases_yielded
    IN  IF /\ ls_in_json_block \/ Contains(ls_content \o chunk, "{")
           /\ BraceCounterAfter(chunk) = 1
        THEN SelectSeq(PhaseKeys, Due)
        ELSE <<>>

SrvFrame ==
    UNCHANGED <<logVars, toolVars, condVars, llmVars, busVars, promptVars, selVars>>

\* POST /invoke with a supported provider: the generator starts (lines 49-53).
InvokeLlm(doc, is_json) ==
    /\ ls_pc # "streaming"
    /\ ls_pc' = "streaming"
    /\ ls_is_json' = is_json
    /\ ls_doc' = doc
    /\ ls_pos' = 0
    /\ ls_content' = <<>>
    /\ ls_brace_counter' = 0
    /\ ls_in_json_block' = FALSE
    /\ ls_phases_yielded' = {}
    /\ ls_records' = <<>>
    /\ SrvFrame

\* One turn of "async for chunk" (lines 62-94) for a chunk of n words; the
\* provider may begin with an empty chunk.
ProviderYields(n) ==
    /\ ls_pc = "streaming"
    /\ ls_pos + n <= Len(ls_doc)
    /\ n = 0 => ls_pos = 0 /\ ls_records = <<>> /\ ~ls_is_json
    /\ LET chunk == SubSeq(ls_doc, ls_pos + 1, ls_pos + n)
       IN  /\ ls_content' = ls_content \o chunk
           /\ IF ls_is_json
              THEN /\ ls_brace_counter' = BraceCounterAfter(chunk)
                   /\ ls_in_json_block' =
                          /\ ls_in_json_block \/ Contains(ls_content \o chunk, "{")
                          /\ BraceCounterAfter(chunk) > 0
                   /\ ls_phases_yielded' =
                          ls_phases_yielded
                              \cup {PhasesFor(chunk)[i] : i \in 1..Len(PhasesFor(chunk))}
                   /\ ls_records' =
                          ls_records \o [i \in 1..Len(PhasesFor(chunk)) |->
                                            Record("phase", <<PhasesFor(chunk)[i]>>)]
              ELSE /\ ls_records' = Append(ls_records, Record("chunk", chunk))
                   /\ UNCHANGED <<ls_brace_counter, ls_in_json_block, ls_phases_yielded>>
    /\ ls_pos' = ls_pos + n
    /\ UNCHANGED <<ls_pc, ls_is_json, ls_doc>>
    /\ SrvFrame

\* The provider's stream ends (lines 96-102).
ProviderEnds ==
    /\ ls_pc = "streaming"
    /\ ls_pos = Len(ls_doc)
    /\ ls_pc' = "ended"
    /\ ls_records' = Append(ls_records,
                            IF Strip(ls_content) = <<>>
                            THEN Record("system_log", <<>>)
                            ELSE Record("final_response", ls_content))
    /\ UNCHANGED <<ls_is_json, ls_doc, ls_pos, ls_content, ls_brace_counter,
                   ls_in_json_block, ls_phases_yielded>>
    /\ SrvFrame

\* The provider raises (lines 104-107).
ProviderRaises ==
    /\ ls_pc = "streaming"
    /\ ls_pc' = "raised"
    /\ ls_records' = Append(ls_records, Record("system_log", <<>>))
    /\ UNCHANGED <<ls_is_json, ls_doc, ls_pos, ls_content, ls_brace_counter,
                   ls_in_json_block, ls_phases_yielded>>
    /\ SrvFrame

LlmServerNext ==
    \/ \E doc \in Documents, is_json \in BOOLEAN : InvokeLlm(doc, is_json)
    \/ \E n \in 0..MaxChunkLen : ProviderYields(n)
    \/ ProviderEnds
    \/ ProviderRaises

\* The response streams of the LLM service, request after request.
SpecLlmServer == Constructed("ops") /\ disk = NoFile /\ [][LlmServerNext]_vars

\* ------------------------------------------------------------------ C37
IsFinalResponse(record) == record.type = "final_response"

\* C37: a response stream that is over ends with a final_response record
\* whose reply is the concatenation of the chunks the provider yielded, and
\* holds no other final_response record; this includes a provider that
\* yielded only empty content and one that raised.
C37_StreamEndsWithFinalResponse ==
    ls_pc \in {"ended", "raised"}
        => /\ ls_records # <<>>
           /\ ls_records[Len(ls_records)]
                  = Record("final_response", SubSeq(ls_doc, 1, ls_pos))
           /\ Len(SelectSeq(ls_records, IsFinalResponse)) = 1


\* ------------------------------------------------------------------ C38
\* The keys of the text that stand directly in its outermost object.
TopLevelKeys(doc) ==
    {doc[i] : i \in {j \in 1..Len(doc) :
                        /\ Contains(PhaseKeys, doc[j])
                        /\ CountOf(SubSeq(doc, 1, j), "{")
                               - CountOf(SubSeq(doc, 1, j), "}") = 1}}

IsPhase(record) == record.type = "phase"

\* C38: when an is_json stream has ended, its records are one phase record
\* for each top-level key of the streamed text, none for a key that is only
\* nested, then the final_response record, and no chunk record, however
\* the provider split the text into chunks.
C38_OnePhasePerTopLevelKey ==
    (ls_pc = "ended" /\ ls_is_json)
        => LET phases == SelectSeq(ls_records, IsPhase)
           IN  /\ {phases[i].content[1] : i \in 1..Len(phases)} = TopLevelKeys(ls_doc)
               /\ Len(phases) = Cardinality(TopLevelKeys(ls_doc))
               /\ \A i \in 1..Len(ls_records) :
                      /\ ls_records[i].type # "chunk"
                      /\ IsPhase(ls_records[i]) => i < Len(ls_records)


\* ------------------------------------------------------------------ C39
\* C39: a mission reports "Mission execution halted by user." at the top of
\* its loop only when a stop request is standing in the registry, which is
\* one that arrived while the mission was running: set_mission_running and
\* set_mission_finished clear it.
C39_HaltOnlyAfterStopRequest ==
    [][\A m \in Missions :
          (pc[m] = "top" /\ LoopTop(m) /\ "system_log:halted" \in Emitted(m)')
              => registry.stop_requested]_vars


\* ------------------------------------------------------------------ C40
\* Every done task of the sequence before is at its position in the sequence
\* after, unchanged.
DoneTasksKept(before, after) ==
    \A i \in 1..Len(before) :
        before[i].done => (i <= Len(after) /\ after[i] = before[i])

\* C40: the task a mission hands to the Replanner is the first pending task
\* of its log, and a re-plan leaves every done task of the mission's log
\* and of the file in the log, done, with its id and at its position.
C40_ReplanKeepsDoneTasks ==
    [][\A m \in Missions, steps \in ReplanPlans :
          (pc[m] = "replan" /\ ReplanWithPlan(m, steps))
              => /\ current_task[m] = FirstPendingId(tasks[m])
                 /\ DoneTasksKept(tasks[m], tasks'[m])
                 /\ DoneTasksKept(disk.tasks, disk'.tasks)]_vars

====
